---- MODULE Spec2Model ----
(***************************************************************************)
(* Credit ledger of the Golden Price List application.                     *)
(*                                                                         *)
(* The model follows src/src/context/OrderContext.tsx (CreditProvider) and *)
(* the handlers that call it (ClientActionModal, ClientDetailModal,        *)
(* CreditManagement).  The in-memory ledger is React state; every async    *)
(* operation reads `clients` through the closure of the render it was      *)
(* called from, so what it reads after an await is the snapshot taken when *)
(* it was called.  The persisted store is the remote collaborator: every   *)
(* awaited call is one step executed by the store; the continuation that   *)
(* touches React state is a later step of the same operation.              *)
(***************************************************************************)
EXTENDS Integers, Sequences, FiniteSets, TLC

(***************************************************************************)
(* Bounds of the model.                                                    *)
(***************************************************************************)
MaxCalls == 3
MaxFailures == 1
MaxInFlight == 2

(***************************************************************************)
(* Generic helpers.                                                        *)
(***************************************************************************)
Max(a, b) == IF a >= b THEN a ELSE b

Range(s) == {s[i] : i \in 1..Len(s)}

RECURSIVE Reverse(_)
Reverse(s) == IF s = <<>> THEN <<>> ELSE Reverse(Tail(s)) \o <<Head(s)>>

RECURSIVE SumSeq(_)
SumSeq(s) == IF s = <<>> THEN 0 ELSE Head(s) + SumSeq(Tail(s))

(***************************************************************************)
(* Strings are sequences of one-character strings, so that trimming,       *)
(* splitting and case conversion are computed and not assumed.             *)
(***************************************************************************)
UpperChars == <<"A", "B", "C", "L", "P", "R">>
LowerChars == <<"a", "b", "c", "l", "p", "r">>

LowerOf == [c \in Range(UpperChars) |-> LowerChars[CHOOSE i \in 1..Len(UpperChars) : UpperChars[i] = c]]
UpperOf == [c \in Range(LowerChars) |-> UpperChars[CHOOSE i \in 1..Len(LowerChars) : LowerChars[i] = c]]

toLowerChar(c) == IF c \in DOMAIN LowerOf THEN LowerOf[c] ELSE c
toUpperChar(c) == IF c \in DOMAIN UpperOf THEN UpperOf[c] ELSE c

toLowerCase(s) == [i \in 1..Len(s) |-> toLowerChar(s[i])]
toUpperCase(s) == [i \in 1..Len(s) |-> toUpperChar(s[i])]

RECURSIVE trimStart(_)
trimStart(s) == IF s # <<>> /\ Head(s) = " " THEN trimStart(Tail(s)) ELSE s

trim(s) == Reverse(trimStart(Reverse(trimStart(s))))

\* s.split(' '): the words between single spaces, empty words included
RECURSIVE splitAcc(_, _)
splitAcc(s, word) ==
    IF s = <<>> THEN <<word>>
    ELSE IF Head(s) = " " THEN <<word>> \o splitAcc(Tail(s), <<>>)
    ELSE splitAcc(Tail(s), Append(word, Head(s)))

split(s) == splitAcc(s, <<>>)

RECURSIVE join(_)
join(words) ==
    IF words = <<>> THEN <<>>
    ELSE IF Len(words) = 1 THEN words[1]
    ELSE words[1] \o <<" ">> \o join(Tail(words))

\* word.charAt(0).toUpperCase() + word.slice(1).toLowerCase()
capitalize(word) ==
    IF word = <<>> THEN <<>>
    ELSE <<toUpperChar(Head(word))>> \o toLowerCase(Tail(word))

\* name.trim().split(' ').map(capitalize).join(' ')
formattedNameOf(name) ==
    LET words == split(trim(name))
    IN  join([i \in 1..Len(words) |-> capitalize(words[i])])

(***************************************************************************)
(* Client ids.  An id is a prefix and a digit string; /^G\d{3}$/ accepts   *)
(* prefix "G" followed by exactly IdWidth digits.                          *)
(***************************************************************************)
IdWidth == 3

MkId(p, ds) == [prefix |-> p, digits |-> ds]

matchesIdPattern(id) == id.prefix = "G" /\ Len(id.digits) = IdWidth

\* parseInt(id.substring(1)) for an id that matched the pattern
RECURSIVE parseDigits(_)
parseDigits(ds) ==
    IF ds = <<>> THEN 0
    ELSE parseDigits(SubSeq(ds, 1, Len(ds) - 1)) * 10 + ds[Len(ds)]

\* n.toString() for n >= 0
RECURSIVE toDigits(_)
toDigits(n) == IF n < 10 THEN <<n>> ELSE Append(toDigits(n \div 10), n % 10)

\* s.padStart(IdWidth, '0')
RECURSIVE padStart(_)
padStart(ds) == IF Len(ds) >= IdWidth THEN ds ELSE padStart(<<0>> \o ds)

\* numbers.sort((a, b) => a - b)
sortNumbers(s) == SortSeq(s, LAMBDA a, b : a < b)

\* the for-loop that walks the sorted numbers and stops at the first gap: the
\* k-th number is compared with nextNumber + k - 1, and the first that differs
\* ends the walk
firstMissing(nums, nextNumber) ==
    LET gaps == {k \in 1..Len(nums) : nums[k] # nextNumber + k - 1}
    IN  IF gaps = {} THEN nextNumber + Len(nums)
        ELSE nextNumber + (CHOOSE k \in gaps : \A l \in gaps : k <= l) - 1

\* the id generated by addClient from the ids of the clients it sees
generateId(ids) ==
    LET existingIds == SelectSeq(ids, matchesIdPattern)
        existingNumbers == sortNumbers([i \in 1..Len(existingIds) |-> parseDigits(existingIds[i].digits)])
    IN  MkId("G", padStart(toDigits(firstMissing(existingNumbers, 1))))

(***************************************************************************)
(* Bottle categories and the stored form of bottlesOwed.                   *)
(***************************************************************************)
Categories == <<"beer", "guinness", "malta", "coca", "chopines">>

CategorySet == Range(Categories)

ZeroBottles == [k \in CategorySet |-> 0]

\* JSON.stringify(bottles): the text lists the keys in the object's order
stringifyBottles(b) == [i \in 1..Len(Categories) |-> <<Categories[i], b[Categories[i]]>>]

\* JSON.parse(text): the object holding what the text lists
parseBottles(text) ==
    [k \in {text[i][1] : i \in 1..Len(text)} |->
        LET i == CHOOSE j \in 1..Len(text) : text[j][1] = k /\ \A l \in (j+1)..Len(text) : text[l][1] # k
        IN  text[i][2]]

\* a stored text cut off after its first key: JSON.parse throws a SyntaxError on it
Truncated == <<<<"beer">>>>

\* JSON.parse(text) returns
decodable(text) == \A i \in 1..Len(text) : Len(text[i]) = 2

(***************************************************************************)
(* parseBottlesFromDescription of the bottle-inferring variant.  The       *)
(* regular expressions are matched as JavaScript matches them: leftmost    *)
(* start, greedy quantifiers with backtracking, global matches that do not *)
(* overlap.                                                                *)
(***************************************************************************)
DigitChars == <<"0", "1", "2", "3", "4", "5", "6", "7", "8", "9">>

isDigitChar(c) == c \in Range(DigitChars)

digitValue(c) == (CHOOSE k \in 1..Len(DigitChars) : DigitChars[k] = c) - 1

\* number of consecutive characters of s from position i on that lie in set S
\* n.toString() for n >= 0, as characters
RECURSIVE wholeText(_)
wholeText(n) ==
    IF n < 10 THEN <<DigitChars[n + 1]>> ELSE Append(wholeText(n \div 10), DigitChars[(n % 10) + 1])

RECURSIVE runLength(_, _, _)
runLength(s, i, S) ==
    IF i <= Len(s) /\ s[i] \in S THEN 1 + runLength(s, i + 1, S) ELSE 0

startsWithAt(s, i, lit) ==
    /\ i + Len(lit) - 1 <= Len(s)
    /\ SubSeq(s, i, i + Len(lit) - 1) = lit

\* s.includes(lit)
includes(s, lit) == \E i \in 1..Len(s) : startsWithAt(s, i, lit)

\* parseInt of the digit run that starts at position i
RECURSIVE parseIntAt(_, _, _)
parseIntAt(s, i, acc) ==
    IF i <= Len(s) /\ isDigitChar(s[i]) THEN parseIntAt(s, i + 1, acc * 10 + digitValue(s[i])) ELSE acc

\* (?!\s*[0-9.]+l) at position p: TRUE when the forbidden text follows
sizeFollows(s, p) ==
    LET q == p + runLength(s, p, {" "})
        r == runLength(s, q, Range(DigitChars) \cup {"."})
    IN  r >= 1 /\ q + r <= Len(s) /\ s[q + r] = "l"

\* /(\d+)\s*<lit>s?/ or /(\d+)\s*<lit>s?(?!\s*[0-9.]+l)/ tried at position i:
\* the position after the match, or 0 when there is no match at i
matchEndAt(s, i, lit, optionalS, notBeforeSize) ==
    LET maxDigits == runLength(s, i, Range(DigitChars))
        \* ends of <lit>s? that the lookahead accepts, longest first
        endAfter(q) ==
            LET e == q + Len(lit)
                withS == optionalS /\ e <= Len(s) /\ s[e] = "s"
            IN  IF withS /\ ~(notBeforeSize /\ sizeFollows(s, e + 1)) THEN e + 1
                ELSE IF ~(notBeforeSize /\ sizeFollows(s, e)) THEN e
                ELSE 0
        endFor(d) ==
            LET p == i + d
                ws == runLength(s, p, {" "})
                good == {w \in 0..ws : startsWithAt(s, p + w, lit) /\ endAfter(p + w) # 0}
            IN  IF good = {} THEN 0
                ELSE endAfter(p + (CHOOSE w \in good : \A v \in good : v <= w))
        goodDigits == {d \in 1..maxDigits : endFor(d) # 0}
    IN  IF goodDigits = {} THEN 0
        ELSE endFor(CHOOSE d \in goodDigits : \A e \in goodDigits : e <= d)

\* the quantities of the global matches: parseInt(match.match(/(\d+)/)[1]) of each
RECURSIVE matchQuantities(_, _, _, _, _)
matchQuantities(s, i, lit, optionalS, notBeforeSize) ==
    IF i > Len(s) THEN <<>>
    ELSE LET e == matchEndAt(s, i, lit, optionalS, notBeforeSize)
         IN  IF e = 0 THEN matchQuantities(s, i + 1, lit, optionalS, notBeforeSize)
             ELSE <<parseIntAt(s, i, 0)>> \o matchQuantities(s, e, lit, optionalS, notBeforeSize)

parseBottlesFromDescription(description) ==
    LET lowercaseDesc == toLowerCase(description)
        chopineMatches == matchQuantities(lowercaseDesc, 1, <<"c","h","o","p","i","n","e">>, TRUE, FALSE)
        bottle15LMatches == matchQuantities(lowercaseDesc, 1, <<"1",".","5","l">>, FALSE, FALSE)
        bottle2LMatches == matchQuantities(lowercaseDesc, 1, <<"2","l">>, FALSE, FALSE)
        bottle05LMatches == matchQuantities(lowercaseDesc, 1, <<"0",".","5","l">>, FALSE, FALSE)
        bouteilleMatches == matchQuantities(lowercaseDesc, 1, <<"b","o","u","t","e","i","l","l","e">>, TRUE, TRUE)
    IN  [beer |-> SumSeq(bouteilleMatches)
                  + (IF /\ includes(lowercaseDesc, <<"b","o","u","t","e","i","l","l","e">>)
                        /\ bouteilleMatches = <<>>
                        /\ bottle15LMatches = <<>>
                        /\ bottle2LMatches = <<>>
                        /\ bottle05LMatches = <<>>
                     THEN 1 ELSE 0),
         guinness |-> SumSeq(bottle05LMatches),
         malta |-> SumSeq(bottle15LMatches),
         coca |-> SumSeq(bottle2LMatches),
         chopines |-> SumSeq(chopineMatches)
                      + (IF includes(lowercaseDesc, <<"c","h","o","p","i","n","e">>) /\ chopineMatches = <<>>
                         THEN 1 ELSE 0)]

(***************************************************************************)
(* Records.                                                                *)
(***************************************************************************)
NoId == MkId("", <<>>)

NoClient == [id |-> NoId, name |-> <<>>, totalDebt |-> 0, bottlesOwed |-> ZeroBottles]

IdleOp == [kind |-> "idle", pc |-> "idle", cid |-> NoId, amount |-> 0,
           desc |-> <<>>, debt |-> 0, bottles |-> ZeroBottles, client |-> NoClient,
           row |-> 0, ldClients |-> <<>>, ldTx |-> <<>>, ldPay |-> <<>>, alone |-> TRUE,
           returnItems |-> <<>>, item |-> 0]

NoResult == [n |-> 0, kind |-> "none", status |-> "none", amount |-> [tag |-> "number", v |-> 0]]

\* an over_items row; an OverItem is [id, name, isCompleted]
NoRow == [id |-> 0, name |-> <<>>, is_completed |-> FALSE]

NoItem == [id |-> 0, name |-> <<>>, isCompleted |-> FALSE]

\* a postgres_changes payload: the row is payload.new, for DELETE payload.old
NoEvent == [eventType |-> "none", row |-> NoRow]

IdleOverOp == [kind |-> "idle", pc |-> "idle", item |-> NoItem, rows |-> <<>>]

\* a number of the calculator: the fraction n / d in lowest terms; d = 0 is a
\* value that is not finite (Infinity, -Infinity, NaN)
Zero == [n |-> 0, d |-> 1]

NoKey == [value |-> "", on |-> <<>>]

\* a PriceItem is [id, name, price, lastEditedAt]; lastEditedAt 0 is undefined
NoPriceItem == [id |-> 0, name |-> <<>>, price |-> 0, lastEditedAt |-> 0]

Null == "null"

IdleItemOp == [pc |-> "idle", originalItem |-> NoPriceItem, itemToUpdate |-> NoPriceItem]

(***************************************************************************)
(* State.                                                                  *)
(***************************************************************************)
VARIABLES
    clients,         \* useState<Client[]>: the in-memory clients
    transactions,    \* useState<Transaction[]>
    payments,        \* useState<Payment[]>
    dbClients,       \* credit_clients rows of the persisted store
    dbTransactions,  \* credit_transactions rows, in insertion order
    dbPayments,      \* credit_payments rows, in insertion order
    ops,             \* the async operations in flight, by the number of the call that started them
    selectedClient,  \* the client object the detail dialog captured
    inferBottles,    \* which addTransaction variant runs: with or without bottle inference
    calls,           \* number of user actions issued so far
    failures,        \* number of persistence calls that have failed so far
    result,          \* the outcome last surfaced to a caller
    linkedClient,    \* the client object the calculator is linked to (quick add)
    items,           \* OverProvider, useState<OverItem[]>: the in-memory over items
    dbItems,         \* over_items rows of the persisted store
    overOps,         \* the async operations of OverProvider in flight, by call number
    subscribed,      \* the postgres_changes subscription is set up
    channel,         \* change notifications sent to the subscription, not yet handled
    delivered,       \* the notification the handler handled last
    remoteChanges,   \* number of writes other devices made to over_items so far
    calculatorValue,    \* CreditManagement, useState('0'): the expression the calculator displays
    calculatorMemory,   \* useState(0): the memory register
    isCalculatorActive, \* useState(false)
    pressed,         \* the operator key handled last and the expression it was pressed on
    priceItems,      \* PriceListProvider, useState<PriceItem[]>: the in-memory price items
    dbPriceItems,    \* the price items held by IndexedDB
    itemOps,         \* the updateItem calls in flight, by call number
    priceError       \* useState<string | null>: the error PriceListProvider shows

\* the state of CreditProvider and of the components that call it
credit == <<clients, transactions, payments, dbClients, dbTransactions, dbPayments,
            ops, selectedClient, inferBottles, result>>

\* the state of OverProvider
over == <<items, dbItems, overOps, subscribed, channel, delivered, remoteChanges>>

\* the calculator of CreditManagement
desk == <<calculatorValue, calculatorMemory, isCalculatorActive, pressed>>

\* the state of PriceListProvider
priceList == <<priceItems, dbPriceItems, itemOps, priceError>>

vars == <<clients, transactions, payments, dbClients, dbTransactions, dbPayments,
          ops, selectedClient, inferBottles, calls, failures, result,
          linkedClient, items, dbItems, overOps, subscribed, channel, delivered, remoteChanges,
          calculatorValue, calculatorMemory, isCalculatorActive, pressed,
          priceItems, dbPriceItems, itemOps, priceError>>

mem == <<clients, transactions, payments>>

db == <<dbClients, dbTransactions, dbPayments>>

(***************************************************************************)
(* Inputs the handlers are called with.                                    *)
(***************************************************************************)
RawNames == { <<"a", "b">>, <<" ", "A", "B">>, <<"c">> }

DebtInputs == { [description |-> <<"2", " ", "B", "o", "u", "t", "e", "i", "l", "l", "e">>, amount |-> 2],
                [description |-> <<"P", "a", "i", "n">>, amount |-> 1] }

\* what parseFloat(paymentAmount) can yield
NaN == [tag |-> "NaN", v |-> 0]
Infinity == [tag |-> "Infinity", v |-> 0]
Num(v) == [tag |-> "number", v |-> v]

PaymentInputs == {NaN, Infinity} \cup {Num(v) : v \in 0..2}

ReturnInputs == { [k \in {"beer"} |-> 1], [k \in {"beer"} |-> 3] }

(***************************************************************************)
(* Reads of the ledger (the derived accessors of the provider).            *)
(***************************************************************************)
\* clients.find(c => c.id === clientId)
findClient(cs, clientId) ==
    IF \E i \in 1..Len(cs) : cs[i].id = clientId
    THEN cs[CHOOSE i \in 1..Len(cs) : cs[i].id = clientId /\ \A j \in 1..(i-1) : cs[j].id # clientId]
    ELSE NoClient

getClientTotalDebt(cs, clientId) == findClient(cs, clientId).totalDebt

getClientBottlesOwed(cs, clientId) == findClient(cs, clientId).bottlesOwed

clientIds(cs) == [i \in 1..Len(cs) |-> cs[i].id]

(***************************************************************************)
(* select('*').order(...) of the persisted store, and the transformation   *)
(* of its rows into ledger entities.                                       *)
(***************************************************************************)
CharOrder == <<" ", "A", "B", "C", "L", "P", "R", "a", "b", "c", "l", "p", "r">>

charRank(c) == CHOOSE k \in 1..Len(CharOrder) : CharOrder[k] = c

RECURSIVE textBefore(_, _)
textBefore(a, b) ==
    IF b = <<>> THEN FALSE
    ELSE IF a = <<>> THEN TRUE
    ELSE IF Head(a) = Head(b) THEN textBefore(Tail(a), Tail(b))
    ELSE charRank(Head(a)) < charRank(Head(b))

\* rows with equal names come out in the order of their ids
rowBefore(r1, r2) ==
    \/ textBefore(r1.name, r2.name)
    \/ r1.name = r2.name /\ parseDigits(r1.id.digits) < parseDigits(r2.id.digits)

RECURSIVE orderByName(_)
orderByName(rows) ==
    IF rows = {} THEN <<>>
    ELSE LET first == CHOOSE r \in rows : \A q \in rows \ {r} : rowBefore(r, q)
         IN  <<first>> \o orderByName(rows \ {first})

transformClient(row) ==
    [id |-> row.id, name |-> row.name, totalDebt |-> row.total_debt,
     bottlesOwed |-> parseBottles(row.bottles_owed)]

transformTransaction(row) ==
    [id |-> row.id, clientId |-> row.client_id, description |-> row.description,
     amount |-> row.amount, type |-> row.type]

transformPayment(row) ==
    [id |-> row.id, clientId |-> row.client_id, amount |-> row.amount, type |-> row.type]

\* delete().eq('id', clientId) as the store executes it: the rows of the one table
\* with that id go; the schema of the store is not part of the sources, the store
\* is the collaborator the specification describes (insert, update-by-id, delete-by-id)
deleteById(rows, clientId) == {r \in rows : r.id # clientId}

\* the store holds one client row per id and refuses an insert of a second one
insertRefused(rows, clientId) == \E r \in rows : r.id = clientId

\* update(...).eq('id', clientId): rewrites the row with that id, if there is one
updateRow(rows, clientId, values) ==
    {IF r.id = clientId
     THEN [f \in DOMAIN r |-> IF f \in DOMAIN values THEN values[f] ELSE r[f]]
     ELSE r : r \in rows}

(***************************************************************************)
(* Operations in flight.  The operation started by the n-th user action is *)
(* ops[n]; ops[0] is the loadData of the mount effect.  `alone` records    *)
(* that no other user operation was in flight during the operation.        *)
(***************************************************************************)
Slots == 0..MaxCalls

UserSlots == 1..MaxCalls

InFlight == {n \in UserSlots : ops[n].kind # "idle"}

CanStart == Cardinality(InFlight) < MaxInFlight

NewOp(kind, pc) == [IdleOp EXCEPT !.kind = kind, !.pc = pc, !.alone = (InFlight = {})]

\* a user action is issued; it is the (calls + 1)-th
Issue == calls < MaxCalls /\ calls' = calls + 1

\* the action starts operation op
Start(op) ==
    /\ CanStart
    /\ ops' = [n \in Slots |->
                  IF n = calls + 1 THEN op
                  ELSE IF n \in InFlight THEN [ops[n] EXCEPT !.alone = FALSE]
                  ELSE ops[n]]
    /\ UNCHANGED <<failures, result>>

\* the operation of slot s ends and its outcome reaches the caller
Finish(s, status) ==
    /\ ops' = [ops EXCEPT ![s] = IdleOp]
    /\ result' = IF ops[s].kind = "loadData" THEN result
                 ELSE [n |-> s, kind |-> ops[s].kind, status |-> status, amount |-> Num(0)]

\* a synchronous rejection: no operation is started
Reject(kind, status, amount) ==
    /\ result' = [n |-> calls + 1, kind |-> kind, status |-> status, amount |-> amount]
    /\ UNCHANGED <<ops, failures>>

\* the awaited call of slot s returns an error and the operation throws
Throws(s) ==
    /\ failures < MaxFailures
    /\ failures' = failures + 1
    /\ Finish(s, "RemoteFailure")

\* the calculator shows 0 and no key has been pressed
DeskAtRest ==
    /\ calculatorValue = <<"0">>
    /\ calculatorMemory = Zero
    /\ isCalculatorActive = FALSE
    /\ pressed = NoKey

\* PriceListProvider is not mounted
PriceListAtRest ==
    /\ priceItems = <<>>
    /\ dbPriceItems = <<>>
    /\ itemOps = [s \in Slots |-> IdleItemOp]
    /\ priceError = Null

\* OverProvider is not mounted
OverAtRest ==
    /\ items = <<>>
    /\ dbItems = <<>>
    /\ overOps = [s \in Slots |-> IdleOverOp]
    /\ subscribed = FALSE
    /\ channel = <<>>
    /\ delivered = NoEvent
    /\ remoteChanges = 0

Init ==
    /\ clients = <<>>
    /\ transactions = <<>>
    /\ payments = <<>>
    /\ dbClients = {}
    /\ dbTransactions = <<>>
    /\ dbPayments = <<>>
    /\ ops = [s \in Slots |-> IF s = 0 THEN [IdleOp EXCEPT !.kind = "loadData", !.pc = "selectClients"] ELSE IdleOp]
    /\ selectedClient = NoClient
    /\ inferBottles \in BOOLEAN
    /\ calls = 0
    /\ failures = 0
    /\ result = NoResult
    /\ linkedClient = NoClient
    /\ DeskAtRest
    /\ PriceListAtRest
    /\ OverAtRest

(***************************************************************************)
(* The return tab of ClientActionModal.  getReturnableItems and            *)
(* getReturnedQuantity read the client's transactions; handleProcessReturns*)
(* awaits processItemReturn for each item type in turn, and every          *)
(* addTransaction and returnBottles it awaits is the function of the       *)
(* render the button was clicked in: what they read of `clients` is the    *)
(* client as it was at the click (the field client of the operation).      *)
(***************************************************************************)
addBottles(current, updates) == [k \in CategorySet |-> current[k] + updates[k]]

\* the subtraction without Math.max(0, ...)
bottlesAfterReturnUnclamped(currentBottles, returnedBottles) ==
    [k \in CategorySet |->
        currentBottles[k] - (IF k \in DOMAIN returnedBottles THEN returnedBottles[k] ELSE 0)]

\* Math.max(0, currentBottles[k] - (returnedBottles[k] || 0)) for every category
bottlesAfterReturn(currentBottles, returnedBottles) ==
    [k \in CategorySet |->
        Max(0, currentBottles[k] - (IF k \in DOMAIN returnedBottles THEN returnedBottles[k] ELSE 0))]

ItemTypes == { <<"C", "h", "o", "p", "i", "n", "e">>, <<"B", "o", "u", "t", "e", "i", "l", "l", "e">> }

ReturnQuantities == {1, 2}

\* the contents of returnItems, in the order of Object.entries
ReturnSelections ==
    {<<[itemType |-> t, quantity |-> q]>> : t \in ItemTypes, q \in ReturnQuantities}
    \cup {selection \in {<<[itemType |-> t, quantity |-> q], [itemType |-> u, quantity |-> r]>> :
                               t \in ItemTypes, u \in ItemTypes,
                               q \in ReturnQuantities, r \in ReturnQuantities} :
             selection[1].itemType # selection[2].itemType}

Returned == <<"r", "e", "t", "u", "r", "n", "e", "d">>

\* returnableItems[itemType].total, 0 when the key is absent
getReturnableItems(clientTransactions, itemType) ==
    LET word == toLowerCase(itemType)
        quantity(transaction) ==
            LET description == toLowerCase(transaction.description)
                matches == matchQuantities(description, 1, word, TRUE, FALSE)
            IN  IF transaction.type = "payment" \/ includes(description, Returned) THEN 0
                ELSE SumSeq(matches)
                     + (IF includes(description, word) /\ matches = <<>> THEN 1 ELSE 0)
    IN  SumSeq([j \in 1..Len(clientTransactions) |-> quantity(clientTransactions[j])])

\* description.match(/returned:\s*(\d+)\s+/): the quantity of the first match, 0 without one
returnedMatch(description) ==
    LET at == {p \in 1..Len(description) :
                  LET q == p + Len(Returned) + 1 + runLength(description, p + Len(Returned) + 1, {" "})
                      d == runLength(description, q, Range(DigitChars))
                  IN  /\ startsWithAt(description, p, Append(Returned, ":"))
                      /\ d >= 1 /\ q + d <= Len(description) /\ description[q + d] = " "}
        first == CHOOSE p \in at : \A o \in at : p <= o
    IN  IF at = {} THEN 0
        ELSE parseIntAt(description,
                        first + Len(Returned) + 1
                        + runLength(description, first + Len(Returned) + 1, {" "}), 0)

getReturnedQuantity(clientTransactions, itemType) ==
    LET quantity(transaction) ==
            LET description == toLowerCase(transaction.description)
            IN  IF /\ transaction.type = "debt" /\ includes(description, Returned)
                   /\ includes(description, toLowerCase(itemType))
                THEN returnedMatch(description) ELSE 0
    IN  SumSeq([j \in 1..Len(clientTransactions) |-> quantity(clientTransactions[j])])

\* the net quantity without the quantities already returned
availableQuantityIgnoresReturns(clientTransactions, itemType) ==
    getReturnableItems(clientTransactions, itemType)

\* availableItems[itemType].total, 0 when the key is absent
availableQuantity(clientTransactions, itemType) ==
    Max(0, getReturnableItems(clientTransactions, itemType)
           - getReturnedQuantity(clientTransactions, itemType))

\* `Returned: ${returnQuantity} ${itemType}${returnQuantity > 1 ? 's' : ''}`
returnDescription(entry) ==
    <<"R", "e", "t", "u", "r", "n", "e", "d", ":", " ">> \o wholeText(entry.quantity) \o <<" ">>
    \o entry.itemType \o (IF entry.quantity > 1 THEN <<"s">> ELSE <<>>)

\* bottleUpdate of processItemReturn
bottleUpdate(entry) ==
    IF toLowerCase(entry.itemType) = <<"c", "h", "o", "p", "i", "n", "e">>
    THEN [k \in {"chopines"} |-> entry.quantity]
    ELSE [k \in {"beer"} |-> entry.quantity]

\* addTransaction(client, returnDescription, 0) for the item-th entry, called
\* with the ledger as the operation captured it
returnTransaction(op, item) ==
    [op EXCEPT !.kind = "addTransaction", !.pc = "insertTransaction", !.item = item,
               !.desc = returnDescription(op.returnItems[item]), !.amount = 0,
               !.debt = op.client.totalDebt,
               !.bottles = IF inferBottles
                           THEN addBottles(op.client.bottlesOwed,
                                           parseBottlesFromDescription(
                                               returnDescription(op.returnItems[item])))
                           ELSE ZeroBottles]

\* processItemReturn and the loop of handleProcessReturns after an awaited
\* call resolved: returnBottles after addTransaction, the next entry after
\* returnBottles
nextReturnStep(op) ==
    IF op.kind = "addTransaction"
    THEN [op EXCEPT !.kind = "returnBottles", !.pc = "updateClient",
                    !.bottles = bottlesAfterReturn(op.client.bottlesOwed,
                                                   bottleUpdate(op.returnItems[op.item]))]
    ELSE returnTransaction(op, op.item + 1)

\* the Process Returns button: every quantity is positive and at most what
\* the tab offers
HandleProcessReturns(i, returnItems) ==
    /\ i \in 1..Len(clients)
    /\ \A j \in 1..Len(returnItems) :
          returnItems[j].quantity
          <= availableQuantity(SelectSeq(transactions, LAMBDA t : t.clientId = clients[i].id),
                               returnItems[j].itemType)
    /\ Issue
    /\ Start(returnTransaction([NewOp("addTransaction", "insertTransaction") EXCEPT
                                    !.cid = clients[i].id, !.client = clients[i],
                                    !.returnItems = returnItems], 1))
    /\ UNCHANGED <<linkedClient, desk, priceList, over, mem, db, selectedClient, inferBottles>>

\* the awaited refresh of an operation resolved: the operation ends, or the
\* return submission goes on
AfterLoad(s) ==
    IF ops[s].returnItems = <<>>
       \/ (ops[s].kind = "returnBottles" /\ ops[s].item = Len(ops[s].returnItems))
    THEN Finish(s, "ok")
    ELSE /\ ops' = [ops EXCEPT ![s] = nextReturnStep(ops[s])]
         /\ UNCHANGED result

(***************************************************************************)
(* loadData: three awaited selects, then the three setState calls.  An     *)
(* error of a select is caught inside loadData: the ledger keeps what it   *)
(* held and the operation that asked for the refresh resolves normally.    *)
(***************************************************************************)
\* handleAddToClient after its await addTransaction(...): setLinkedClient(null)
afterAddToClient(s) ==
    IF ops[s].kind = "addTransaction" /\ ops[s].returnItems = <<>> THEN NoClient ELSE linkedClient

LoadFails(s) ==
    /\ ops[s].pc \in {"selectClients", "selectTransactions", "selectPayments"}
    /\ failures < MaxFailures
    /\ failures' = failures + 1
    /\ AfterLoad(s)
    /\ linkedClient' = afterAddToClient(s)
    /\ UNCHANGED <<desk, priceList, over, mem, db, selectedClient, inferBottles, calls>>

LoadSelectClients(s) ==
    /\ ops[s].pc = "selectClients"
    /\ ops' = [ops EXCEPT ![s].ldClients = orderByName(dbClients), ![s].pc = "selectTransactions"]
    /\ UNCHANGED <<linkedClient, desk, priceList, over, mem, db, selectedClient, inferBottles, calls, failures, result>>

LoadSelectTransactions(s) ==
    /\ ops[s].pc = "selectTransactions"
    /\ ops' = [ops EXCEPT ![s].ldTx = Reverse(dbTransactions), ![s].pc = "selectPayments"]
    /\ UNCHANGED <<linkedClient, desk, priceList, over, mem, db, selectedClient, inferBottles, calls, failures, result>>

LoadSelectPayments(s) ==
    /\ ops[s].pc = "selectPayments"
    /\ ops' = [ops EXCEPT ![s].ldPay = Reverse(dbPayments), ![s].pc = "setState"]
    /\ UNCHANGED <<linkedClient, desk, priceList, over, mem, db, selectedClient, inferBottles, calls, failures, result>>

LoadSetState(s) ==
    /\ ops[s].pc = "setState"
    /\ \A i \in 1..Len(ops[s].ldClients) : decodable(ops[s].ldClients[i].bottles_owed)
    /\ clients' = [i \in 1..Len(ops[s].ldClients) |-> transformClient(ops[s].ldClients[i])]
    /\ transactions' = [i \in 1..Len(ops[s].ldTx) |-> transformTransaction(ops[s].ldTx[i])]
    /\ payments' = [i \in 1..Len(ops[s].ldPay) |-> transformPayment(ops[s].ldPay[i])]
    /\ AfterLoad(s)
    /\ linkedClient' = afterAddToClient(s)
    /\ UNCHANGED <<desk, priceList, over, db, selectedClient, inferBottles, calls, failures>>

\* JSON.parse throws inside the map over clientsData: the catch of loadData
\* takes it and none of the three setState calls is reached
LoadParseFails(s) ==
    /\ ops[s].pc = "setState"
    /\ \E i \in 1..Len(ops[s].ldClients) : ~decodable(ops[s].ldClients[i].bottles_owed)
    /\ AfterLoad(s)
    /\ linkedClient' = afterAddToClient(s)
    /\ UNCHANGED <<desk, priceList, over, mem, db, selectedClient, inferBottles, calls, failures>>

(***************************************************************************)
(* addClient(name)                                                         *)
(***************************************************************************)
\* the comparison with toLowerCase() applied to the new name only
nameTakenOneSided(cs, formattedName) ==
    \E i \in 1..Len(cs) : cs[i].name = toLowerCase(formattedName)

\* clients.find(c => c.name.toLowerCase() === formattedName.toLowerCase())
nameTaken(cs, formattedName) ==
    \E i \in 1..Len(cs) : toLowerCase(cs[i].name) = toLowerCase(formattedName)

\* clients.find(c => c.id === id)
idTaken(cs, id) == \E i \in 1..Len(cs) : cs[i].id = id

AddClient(name) ==
    LET formattedName == formattedNameOf(name)
        id == generateId(clientIds(clients))
        newClient == [id |-> id, name |-> formattedName, totalDebt |-> 0, bottlesOwed |-> ZeroBottles]
    IN  /\ Issue
        /\ IF nameTaken(clients, formattedName) \/ idTaken(clients, id)
           THEN Reject("addClient", "DuplicateClientError", Num(0))
           ELSE Start([NewOp("addClient", "insert") EXCEPT !.cid = id, !.client = newClient])
        /\ UNCHANGED <<linkedClient, desk, priceList, over, mem, db, selectedClient, inferBottles>>

\* the store executes the insert
AddClientInsert(s) ==
    /\ ops[s].kind = "addClient" /\ ops[s].pc = "insert"
    /\ \/ /\ ~insertRefused(dbClients, ops[s].cid)
          /\ dbClients' = dbClients \cup
                 {[id |-> ops[s].cid, name |-> ops[s].client.name, total_debt |-> 0,
                   bottles_owed |-> stringifyBottles(ZeroBottles)]}
          /\ ops' = [ops EXCEPT ![s].pc = "append"]
          /\ UNCHANGED <<failures, result>>
       \/ /\ insertRefused(dbClients, ops[s].cid)
          /\ Finish(s, "RemoteFailure")
          /\ UNCHANGED <<dbClients, failures>>
       \/ /\ Throws(s)
          /\ UNCHANGED dbClients
    /\ UNCHANGED <<linkedClient, desk, priceList, over, mem, dbTransactions, dbPayments, selectedClient, inferBottles, calls>>

\* setClients(prev => [...prev, newClient])
AddClientAppend(s) ==
    /\ ops[s].kind = "addClient" /\ ops[s].pc = "append"
    /\ clients' = Append(clients, ops[s].client)
    /\ Finish(s, "ok")
    /\ UNCHANGED <<linkedClient, desk, priceList, over, transactions, payments, db, selectedClient, inferBottles, calls, failures>>

(***************************************************************************)
(* The detail dialog and updateClient(client)                              *)
(***************************************************************************)
\* onLongPress={() => setSelectedClient(client)}
OpenDetail(i) ==
    /\ selectedClient = NoClient
    /\ i \in 1..Len(clients)
    /\ selectedClient' = clients[i]
    /\ UNCHANGED <<linkedClient, desk, priceList, over, mem, db, ops, inferBottles, calls, failures, result>>

\* onClose={() => setSelectedClient(null)}
CloseDetail ==
    /\ selectedClient # NoClient
    /\ selectedClient' = NoClient
    /\ UNCHANGED <<linkedClient, desk, priceList, over, mem, db, ops, inferBottles, calls, failures, result>>

HandleSaveName(editedName) ==
    LET client == selectedClient
        updatedClient == [client EXCEPT !.name = formattedNameOf(editedName)]
    IN  /\ client # NoClient
        /\ trim(editedName) # <<>> /\ trim(editedName) # client.name
        /\ Issue
        /\ Start([NewOp("updateClient", "update") EXCEPT !.cid = client.id, !.client = updatedClient])
        /\ UNCHANGED <<linkedClient, desk, priceList, over, mem, db, selectedClient, inferBottles>>

UpdateClientWrite(s) ==
    LET client == ops[s].client
        change == [name |-> client.name, total_debt |-> client.totalDebt,
                   bottles_owed |-> stringifyBottles(client.bottlesOwed)]
    IN  /\ ops[s].kind = "updateClient" /\ ops[s].pc = "update"
        /\ \/ /\ dbClients' = updateRow(dbClients, client.id, change)
              /\ ops' = [ops EXCEPT ![s].pc = "apply"]
              /\ UNCHANGED <<failures, result>>
           \/ /\ Throws(s)
              /\ UNCHANGED dbClients
        /\ UNCHANGED <<linkedClient, desk, priceList, over, mem, dbTransactions, dbPayments, selectedClient, inferBottles, calls>>

\* setClients(prev => prev.map(c => c.id === client.id ? client : c))
UpdateClientApply(s) ==
    /\ ops[s].kind = "updateClient" /\ ops[s].pc = "apply"
    /\ clients' = [i \in 1..Len(clients) |->
                      IF clients[i].id = ops[s].client.id THEN ops[s].client ELSE clients[i]]
    /\ Finish(s, "ok")
    /\ UNCHANGED <<linkedClient, desk, priceList, over, transactions, payments, db, selectedClient, inferBottles, calls, failures>>

(***************************************************************************)
(* deleteClient(clientId)                                                  *)
(***************************************************************************)
DeleteClient(i) ==
    /\ i \in 1..Len(clients)
    /\ Issue
    /\ Start([NewOp("deleteClient", "delete") EXCEPT !.cid = clients[i].id])
    /\ UNCHANGED <<linkedClient, desk, priceList, over, mem, db, selectedClient, inferBottles>>

\* a deleteClient that filters the ledger before the store has answered
DeleteClientWriteOptimistic(s) ==
    LET keepClient(c) == c.id # ops[s].cid
    IN  /\ ops[s].kind = "deleteClient" /\ ops[s].pc = "delete"
        /\ clients' = SelectSeq(clients, keepClient)
        /\ \/ /\ dbClients' = deleteById(dbClients, ops[s].cid)
              /\ ops' = [ops EXCEPT ![s].pc = "filter"]
              /\ UNCHANGED <<failures, result>>
           \/ /\ Throws(s)
              /\ UNCHANGED dbClients
        /\ UNCHANGED <<linkedClient, desk, priceList, over, transactions, payments, dbTransactions, dbPayments, selectedClient,
                       inferBottles, calls>>

\* from('credit_clients').delete().eq('id', clientId): the one call the operation makes
DeleteClientWrite(s) ==
    /\ ops[s].kind = "deleteClient" /\ ops[s].pc = "delete"
    /\ \/ /\ dbClients' = deleteById(dbClients, ops[s].cid)
          /\ ops' = [ops EXCEPT ![s].pc = "filter"]
          /\ UNCHANGED <<failures, result>>
       \/ /\ Throws(s)
          /\ UNCHANGED dbClients
    /\ UNCHANGED <<linkedClient, desk, priceList, over, mem, dbTransactions, dbPayments, selectedClient, inferBottles, calls>>

DeleteClientFilter(s) ==
    LET keepClient(c) == c.id # ops[s].cid
        keepEntry(e) == e.clientId # ops[s].cid
    IN  /\ ops[s].kind = "deleteClient" /\ ops[s].pc = "filter"
        /\ clients' = SelectSeq(clients, keepClient)
        /\ transactions' = SelectSeq(transactions, keepEntry)
        /\ payments' = SelectSeq(payments, keepEntry)
        /\ Finish(s, "ok")
        /\ UNCHANGED <<linkedClient, desk, priceList, over, db, selectedClient, inferBottles, calls, failures>>

(***************************************************************************)
(* addTransaction(client, description, amount)                             *)
(***************************************************************************)
\* handleAddToClient: amount >= 0, description not blank, client chosen from the list
AddTransaction(i, input) ==
    /\ i \in 1..Len(clients)
    /\ input.amount >= 0 /\ trim(input.description) # <<>>
    /\ Issue
    /\ Start([NewOp("addTransaction", "insertTransaction") EXCEPT
                  !.cid = clients[i].id,
                  !.desc = input.description,
                  !.amount = input.amount,
                  \* what getClientTotalDebt and getClientBottlesOwed of this render return
                  !.debt = getClientTotalDebt(clients, clients[i].id),
                  !.bottles = IF inferBottles
                              THEN addBottles(getClientBottlesOwed(clients, clients[i].id),
                                              parseBottlesFromDescription(input.description))
                              ELSE ZeroBottles])
    /\ UNCHANGED <<linkedClient, desk, priceList, over, mem, db, selectedClient, inferBottles>>

\* onQuickAdd of a client card: setLinkedClient(client)
HandleQuickAdd(i) ==
    /\ i \in 1..Len(clients)
    /\ linkedClient' = clients[i]
    /\ UNCHANGED <<desk, priceList, over, mem, db, ops, selectedClient, inferBottles, calls, failures, result>>

HandleCalculatorCancel ==
    /\ linkedClient # NoClient
    /\ linkedClient' = NoClient
    /\ calculatorValue' = <<"0">>
    /\ isCalculatorActive' = FALSE
    /\ UNCHANGED <<calculatorMemory, pressed, priceList, over, mem, db, ops, selectedClient,
                   inferBottles, calls, failures, result>>

\* the Add button with a linked client: handleAddToClient(linkedClient, description.trim())
HandleAddToLinkedClient(input) ==
    /\ linkedClient # NoClient
    /\ input.amount >= 0 /\ trim(input.description) # <<>>
    /\ Issue
    /\ Start([NewOp("addTransaction", "insertTransaction") EXCEPT
                  !.cid = linkedClient.id,
                  !.desc = trim(input.description),
                  !.amount = input.amount,
                  !.debt = getClientTotalDebt(clients, linkedClient.id),
                  !.bottles = IF inferBottles
                              THEN addBottles(getClientBottlesOwed(clients, linkedClient.id),
                                              parseBottlesFromDescription(trim(input.description)))
                              ELSE ZeroBottles])
    /\ UNCHANGED <<linkedClient, desk, priceList, over, mem, db, selectedClient, inferBottles>>

AddTransactionInsert(s) ==
    /\ ops[s].kind = "addTransaction" /\ ops[s].pc = "insertTransaction"
    /\ \/ /\ dbTransactions' = Append(dbTransactions,
                 [id |-> Len(dbTransactions) + 1, client_id |-> ops[s].cid,
                  description |-> ops[s].desc, amount |-> ops[s].amount, type |-> "debt"])
          /\ ops' = [ops EXCEPT ![s].row = Len(dbTransactions) + 1, ![s].pc = "updateClient"]
          /\ UNCHANGED <<failures, result>>
       \/ /\ Throws(s)
          /\ UNCHANGED dbTransactions
    /\ UNCHANGED <<linkedClient, desk, priceList, over, mem, dbClients, dbPayments, selectedClient, inferBottles, calls>>

AddTransactionUpdate(s) ==
    LET change == IF inferBottles
                  THEN [total_debt |-> ops[s].debt + ops[s].amount,
                        bottles_owed |-> stringifyBottles(ops[s].bottles)]
                  ELSE [total_debt |-> ops[s].debt + ops[s].amount]
    IN  /\ ops[s].kind = "addTransaction" /\ ops[s].pc = "updateClient"
        /\ \/ /\ dbClients' = updateRow(dbClients, ops[s].cid, change)
              /\ ops' = [ops EXCEPT ![s].pc = "selectClients"]
              /\ UNCHANGED <<failures, result>>
           \/ /\ Throws(s)
              /\ UNCHANGED dbClients
        /\ UNCHANGED <<linkedClient, desk, priceList, over, mem, dbTransactions, dbPayments, selectedClient, inferBottles, calls>>

(***************************************************************************)
(* handlePartialPayment and addPartialPayment(clientId, amount)            *)
(***************************************************************************)
\* the validation without amount <= 0
invalidPaymentAllowsZero(amount, totalDebt) ==
    \/ amount.tag = "NaN"
    \/ amount.tag = "Infinity"
    \/ amount.tag = "number" /\ amount.v > totalDebt

\* the validation without its comparison with the total debt
invalidPaymentNoCeiling(amount, totalDebt) ==
    \/ amount.tag = "NaN"
    \/ amount.tag = "number" /\ amount.v <= 0

\* isNaN(amount) || amount <= 0 || amount > totalDebt
invalidPayment(amount, totalDebt) ==
    \/ amount.tag = "NaN"
    \/ amount.tag = "number" /\ amount.v <= 0
    \/ amount.tag = "Infinity"
    \/ amount.tag = "number" /\ amount.v > totalDebt

HandlePartialPayment(i, amount) ==
    /\ i \in 1..Len(clients)
    /\ Issue
    /\ IF invalidPayment(amount, getClientTotalDebt(clients, clients[i].id))
       THEN Reject("addPartialPayment", "InvalidAmount", amount)
       ELSE Start([NewOp("addPartialPayment", "insertPayment") EXCEPT
                       !.cid = clients[i].id,
                       !.amount = amount.v,
                       !.debt = getClientTotalDebt(clients, clients[i].id)])
    /\ UNCHANGED <<linkedClient, desk, priceList, over, mem, db, selectedClient, inferBottles>>

\* the insert into credit_payments of addPartialPayment ('partial') and settleClient ('full')
PaymentInsert(s) ==
    /\ ops[s].kind \in {"addPartialPayment", "settleClient"} /\ ops[s].pc = "insertPayment"
    /\ \/ /\ dbPayments' = Append(dbPayments,
                 [id |-> Len(dbPayments) + 1, client_id |-> ops[s].cid, amount |-> ops[s].amount,
                  type |-> IF ops[s].kind = "settleClient" THEN "full" ELSE "partial"])
          /\ ops' = [ops EXCEPT ![s].row = Len(dbPayments) + 1, ![s].pc = "updateClient"]
          /\ UNCHANGED <<failures, result>>
       \/ /\ Throws(s)
          /\ UNCHANGED dbPayments
    /\ UNCHANGED <<linkedClient, desk, priceList, over, mem, dbClients, dbTransactions, selectedClient, inferBottles, calls>>

AddPartialPaymentUpdate(s) ==
    LET newDebt == Max(0, ops[s].debt - ops[s].amount)
        change == [total_debt |-> newDebt]
    IN  /\ ops[s].kind = "addPartialPayment" /\ ops[s].pc = "updateClient"
        /\ \/ /\ dbClients' = updateRow(dbClients, ops[s].cid, change)
              /\ ops' = [ops EXCEPT ![s].pc = "selectClients"]
              /\ UNCHANGED <<failures, result>>
           \/ /\ Throws(s)
              /\ UNCHANGED dbClients
        /\ UNCHANGED <<linkedClient, desk, priceList, over, mem, dbTransactions, dbPayments, selectedClient, inferBottles, calls>>

(***************************************************************************)
(* settleClient(clientId)                                                  *)
(***************************************************************************)
SettleClient(i) ==
    LET currentDebt == getClientTotalDebt(clients, clients[i].id)
    IN  /\ i \in 1..Len(clients)
        /\ Issue
        /\ Start([NewOp("settleClient", IF currentDebt > 0 THEN "insertPayment" ELSE "updateClient") EXCEPT
                      !.cid = clients[i].id,
                      !.amount = currentDebt,
                      !.debt = currentDebt])
        /\ UNCHANGED <<linkedClient, desk, priceList, over, mem, db, selectedClient, inferBottles>>

\* a settlement that clears the debt and keeps the bottles
SettleClientUpdateKeepsBottles(s) ==
    LET change == [total_debt |-> 0]
    IN  /\ ops[s].kind = "settleClient" /\ ops[s].pc = "updateClient"
        /\ \/ /\ dbClients' = updateRow(dbClients, ops[s].cid, change)
              /\ ops' = [ops EXCEPT ![s].pc = "selectClients"]
              /\ UNCHANGED <<failures, result>>
           \/ /\ Throws(s)
              /\ UNCHANGED dbClients
        /\ UNCHANGED <<linkedClient, desk, priceList, over, mem, dbTransactions, dbPayments, selectedClient, inferBottles, calls>>

SettleClientUpdate(s) ==
    LET change == [total_debt |-> 0, bottles_owed |-> stringifyBottles(ZeroBottles)]
    IN  /\ ops[s].kind = "settleClient" /\ ops[s].pc = "updateClient"
        /\ \/ /\ dbClients' = updateRow(dbClients, ops[s].cid, change)
              /\ ops' = [ops EXCEPT ![s].pc = "selectClients"]
              /\ UNCHANGED <<failures, result>>
           \/ /\ Throws(s)
              /\ UNCHANGED dbClients
        /\ UNCHANGED <<linkedClient, desk, priceList, over, mem, dbTransactions, dbPayments, selectedClient, inferBottles, calls>>

(***************************************************************************)
(* returnBottles(clientId, returnedBottles)                                *)
(***************************************************************************)
ReturnBottles(i, returnedBottles) ==
    /\ i \in 1..Len(clients)
    /\ Issue
    /\ Start([NewOp("returnBottles", "updateClient") EXCEPT
                  !.cid = clients[i].id,
                  !.bottles = bottlesAfterReturn(getClientBottlesOwed(clients, clients[i].id),
                                                 returnedBottles)])
    /\ UNCHANGED <<linkedClient, desk, priceList, over, mem, db, selectedClient, inferBottles>>

ReturnBottlesUpdate(s) ==
    LET change == [bottles_owed |-> stringifyBottles(ops[s].bottles)]
    IN  /\ ops[s].kind = "returnBottles" /\ ops[s].pc = "updateClient"
        /\ \/ /\ dbClients' = updateRow(dbClients, ops[s].cid, change)
              /\ ops' = [ops EXCEPT ![s].pc = "selectClients"]
              /\ UNCHANGED <<failures, result>>
           \/ /\ Throws(s)
              /\ UNCHANGED dbClients
        /\ UNCHANGED <<linkedClient, desk, priceList, over, mem, dbTransactions, dbPayments, selectedClient, inferBottles, calls>>

(***************************************************************************)
(* The ledger as a state machine.                                          *)
(***************************************************************************)
Next ==
    \/ \E name \in RawNames : AddClient(name)
    \/ \E s \in UserSlots : AddClientInsert(s)
    \/ \E s \in UserSlots : AddClientAppend(s)
    \/ \E i \in 1..Len(clients) : OpenDetail(i)
    \/ CloseDetail
    \/ \E name \in RawNames : HandleSaveName(name)
    \/ \E s \in UserSlots : UpdateClientWrite(s)
    \/ \E s \in UserSlots : UpdateClientApply(s)
    \/ \E i \in 1..Len(clients) : DeleteClient(i)
    \/ \E s \in UserSlots : DeleteClientWrite(s)
    \/ \E s \in UserSlots : DeleteClientFilter(s)
    \/ \E i \in 1..Len(clients), input \in DebtInputs : AddTransaction(i, input)
    \/ \E s \in UserSlots : AddTransactionInsert(s)
    \/ \E s \in UserSlots : AddTransactionUpdate(s)
    \/ \E i \in 1..Len(clients), amount \in PaymentInputs : HandlePartialPayment(i, amount)
    \/ \E s \in UserSlots : PaymentInsert(s)
    \/ \E s \in UserSlots : AddPartialPaymentUpdate(s)
    \/ \E i \in 1..Len(clients) : SettleClient(i)
    \/ \E s \in UserSlots : SettleClientUpdate(s)
    \/ \E i \in 1..Len(clients), returned \in ReturnInputs : ReturnBottles(i, returned)
    \/ \E s \in UserSlots : ReturnBottlesUpdate(s)
    \/ \E s \in Slots : LoadSelectClients(s)
    \/ \E s \in Slots : LoadSelectTransactions(s)
    \/ \E s \in Slots : LoadSelectPayments(s)
    \/ \E s \in Slots : LoadSetState(s)
    \/ \E s \in Slots : LoadFails(s)

Spec == Init /\ [][Next]_vars

(***************************************************************************)
(* The allocator on ledgers that were loaded from a store holding ids of   *)
(* any origin (the other variant of addClient takes the id from its        *)
(* caller): the ledger starts with the clients of a subset of IdUniverse   *)
(* and clients are added to it.                                            *)
(***************************************************************************)
IdUniverse == << MkId("G", <<0, 0, 0>>), MkId("G", <<0, 0, 1>>), MkId("G", <<0, 0, 2>>),
                 MkId("G", <<0, 0, 4>>), MkId("G", <<1, 2>>), MkId("X", <<0, 0, 3>>),
                 MkId("G", <<1, 0, 0, 0>>) >>

\* the k-th client of the universe is named "B" followed by k times "b"
universeName(k) == <<"B">> \o [j \in 1..k |-> "b"]

universeClient(k) ==
    [id |-> IdUniverse[k], name |-> universeName(k), totalDebt |-> 0, bottlesOwed |-> ZeroBottles]

RECURSIVE universeClients(_, _)
universeClients(k, chosen) ==
    IF k > Len(IdUniverse) THEN <<>>
    ELSE (IF k \in chosen THEN <<universeClient(k)>> ELSE <<>>) \o universeClients(k + 1, chosen)

InitAlloc ==
    /\ \E chosen \in SUBSET (1..Len(IdUniverse)) :
          /\ clients = universeClients(1, chosen)
          /\ dbClients = {[id |-> IdUniverse[k], name |-> universeName(k), total_debt |-> 0,
                           bottles_owed |-> stringifyBottles(ZeroBottles)] : k \in chosen}
    /\ transactions = <<>>
    /\ payments = <<>>
    /\ dbTransactions = <<>>
    /\ dbPayments = <<>>
    /\ ops = [s \in Slots |-> IdleOp]
    /\ selectedClient = NoClient
    /\ inferBottles = FALSE
    /\ calls = 0
    /\ failures = 0
    /\ result = NoResult
    /\ linkedClient = NoClient
    /\ DeskAtRest
    /\ PriceListAtRest
    /\ OverAtRest

NextAlloc ==
    \/ \E name \in RawNames : AddClient(name)
    \/ \E s \in UserSlots : AddClientInsert(s)
    \/ \E s \in UserSlots : AddClientAppend(s)

SpecAlloc == InitAlloc /\ [][NextAlloc]_vars

(***************************************************************************)
(* A ledger that holds every number of the id format, G001 up to the       *)
(* largest number of IdWidth digits, or all but the first, the last or     *)
(* both; the k-th client is named "N" followed by the digits of k.         *)
(***************************************************************************)
Capacity == 10 ^ IdWidth - 1

fullClient(k) ==
    [id |-> MkId("G", padStart(toDigits(k))),
     name |-> <<"N">> \o [i \in 1..Len(toDigits(k)) |-> DigitChars[toDigits(k)[i] + 1]],
     totalDebt |-> 0, bottlesOwed |-> ZeroBottles]

InitFull ==
    /\ \E missing \in SUBSET {1, Capacity} :
          LET held == [j \in 1..Capacity |-> fullClient(j)]
          IN  /\ clients = SelectSeq(held, LAMBDA c : parseDigits(c.id.digits) \notin missing)
              /\ dbClients = {[id |-> c.id, name |-> c.name, total_debt |-> 0,
                               bottles_owed |-> stringifyBottles(ZeroBottles)] :
                                 c \in {fullClient(j) : j \in (1..Capacity) \ missing}}
    /\ transactions = <<>>
    /\ payments = <<>>
    /\ dbTransactions = <<>>
    /\ dbPayments = <<>>
    /\ ops = [s \in Slots |-> IdleOp]
    /\ selectedClient = NoClient
    /\ inferBottles = FALSE
    /\ calls = 0
    /\ failures = 0
    /\ result = NoResult
    /\ linkedClient = NoClient
    /\ DeskAtRest
    /\ PriceListAtRest
    /\ OverAtRest

SpecFull == InitFull /\ [][NextAlloc]_vars

(***************************************************************************)
(* The bottle-inferring addTransaction on the descriptions a user can      *)
(* type: an optional "Returned: ", an optional quantity, a word and an     *)
(* optional size or other text, with an amount or, as the return dialogue   *)
(* does, with amount 0.  The ledger holds one client and one call is made. *)
(***************************************************************************)
Descriptions ==
    {lead \o quantity \o word \o rest :
        lead \in {<<>>, <<"R","e","t","u","r","n","e","d",":"," ">>},
        quantity \in {<<>>, <<"2"," ">>, <<"1","2">>},
        word \in {<<"B","o","u","t","e","i","l","l","e">>, <<"b","o","u","t","e","i","l","l","e","s">>,
                  <<"b","o","t","t","l","e">>, <<"C","h","o","p","i","n","e">>, <<"P","a","i","n">>},
        rest \in {<<>>, <<" ","1",".","5","L">>, <<" ","x">>}}

InitParse ==
    /\ clients = <<[id |-> MkId("G", <<0, 0, 1>>), name |-> <<"C">>, totalDebt |-> 0,
                    bottlesOwed |-> ZeroBottles]>>
    /\ transactions = <<>>
    /\ payments = <<>>
    /\ dbClients = {[id |-> MkId("G", <<0, 0, 1>>), name |-> <<"C">>, total_debt |-> 0,
                     bottles_owed |-> stringifyBottles(ZeroBottles)]}
    /\ dbTransactions = <<>>
    /\ dbPayments = <<>>
    /\ ops = [s \in Slots |-> IdleOp]
    /\ selectedClient = NoClient
    /\ inferBottles = TRUE
    /\ calls = MaxCalls - 1
    /\ failures = 0
    /\ result = NoResult
    /\ linkedClient = NoClient
    /\ DeskAtRest
    /\ PriceListAtRest
    /\ OverAtRest

NextParse ==
    \/ \E description \in Descriptions, amount \in {0, 1} :
          AddTransaction(1, [description |-> description, amount |-> amount])
    \/ \E s \in UserSlots : AddTransactionInsert(s)
    \/ \E s \in UserSlots : AddTransactionUpdate(s)
    \/ \E s \in Slots : LoadSelectClients(s)
    \/ \E s \in Slots : LoadSelectTransactions(s)
    \/ \E s \in Slots : LoadSelectPayments(s)
    \/ \E s \in Slots : LoadSetState(s)
    \/ \E s \in Slots : LoadFails(s)

SpecParse == InitParse /\ [][NextParse]_vars

(***************************************************************************)
(* The calculator of CreditManagement: handleCalculatorInput(value) for    *)
(* the keys of the pad.  The displayed expression is a sequence of         *)
(* characters.  eval is computed on fractions: the numbers of an           *)
(* expression that fits the display are decimal, and toString prints a     *)
(* quotient that does not terminate with FractionDigits digits, where a    *)
(* double carries seventeen significant ones.  The file is an ES module,   *)
(* so the expression is evaluated as strict code: a number with a leading  *)
(* zero before another digit is a SyntaxError.                             *)
(***************************************************************************)
MaxDisplay == 4
FractionDigits == 3
MaxMemory == 2
MaxMemoryDenominator == 2

DigitKeys == {"0", "2"}

\* the values the buttons pass; "backspace" stands for the erase-to-the-left key

Keys == {"C", "=", "CE", "backspace", "M+", "MR", "MC", "*", "/", "+", "-", "."} \cup DigitKeys

ErrorText == <<"E", "r", "r", "o", "r">>

InfinityText == <<"I", "n", "f", "i", "n", "i", "t", "y">>

\* eval threw, or its result is not finite
Failed == [n |-> 0, d |-> 0]

RECURSIVE gcd(_, _)
gcd(a, b) == IF b = 0 THEN a ELSE gcd(b, a % b)

abs(a) == IF a < 0 THEN 0 - a ELSE a

\* the number n / d
Rat(n, d) ==
    IF d = 0 THEN Failed
    ELSE LET g == gcd(abs(n), abs(d))
             sign == IF d < 0 THEN 0 - 1 ELSE 1
         IN  [n |-> sign * (n \div g), d |-> sign * (d \div g)]

\* a op b of JavaScript; a value that is not finite stays so, since the right
\* operand of * and / is always a literal
arith(op, a, b) ==
    IF a.d = 0 \/ b.d = 0 THEN Failed
    ELSE CASE op = "+" -> Rat(a.n * b.d + b.n * a.d, a.d * b.d)
           [] op = "-" -> Rat(a.n * b.d - b.n * a.d, a.d * b.d)
           [] op = "*" -> Rat(a.n * b.n, a.d * b.d)
           [] op = "/" -> IF b.n = 0 THEN Failed ELSE Rat(a.n * b.d, a.d * b.n)

\* a DecimalLiteral of strict code, or Failed
literalValue(literal) ==
    LET dots == {i \in 1..Len(literal) : literal[i] = "."}
        dot == IF dots = {} THEN Len(literal) + 1 ELSE CHOOSE i \in dots : TRUE
        whole == SubSeq(literal, 1, dot - 1)
        fraction == SubSeq(literal, dot + 1, Len(literal))
    IN  IF \/ Cardinality(dots) > 1
           \/ whole \o fraction = <<>>
           \/ Len(whole) > 1 /\ whole[1] = "0"
        THEN Failed
        ELSE Rat(parseIntAt(whole \o fraction, 1, 0), 10 ^ Len(fraction))

\* the operands of an expression that ends with a literal, each with the
\* operator characters that stand before it
RECURSIVE operands(_)
operands(e) ==
    IF e = <<>> THEN <<>>
    ELSE LET r == runLength(e, 1, {"+", "-", "*", "/"})
             m == runLength(e, r + 1, Range(DigitChars) \cup {"."})
         IN  <<[run |-> SubSeq(e, 1, r), literal |-> SubSeq(e, r + 1, r + m)]>>
             \o operands(SubSeq(e, r + m + 1, Len(e)))

\* the value of the k-th operand with its unary operators, or Failed: "++" and
\* "--" are tokens of their own and no operand may follow them
operandValue(list, k) ==
    LET run == list[k].run
        signs == IF k = 1 THEN run ELSE Tail(run)
        minus == Cardinality({i \in 1..Len(signs) : signs[i] = "-"})
        v == literalValue(list[k].literal)
    IN  IF \/ \E i \in 1..Len(signs) : signs[i] \notin {"+", "-"}
           \/ \E i \in 1..(Len(run) - 1) : run[i] = run[i + 1]
           \/ k > 1 /\ run = <<>>
        THEN Failed
        ELSE IF minus % 2 = 1 THEN arith("-", Zero, v) ELSE v

\* the sum of products, from the left: sum is the value of the terms before
\* the current one, term is the current product
RECURSIVE sumOfProducts(_, _, _, _)
sumOfProducts(list, k, sum, term) ==
    IF k > Len(list) THEN arith("+", sum, term)
    ELSE LET op == IF k = 1 THEN "+" ELSE list[k].run[1]
             v == operandValue(list, k)
         IN  IF v = Failed THEN Failed
             ELSE IF op \in {"*", "/"} THEN sumOfProducts(list, k + 1, sum, arith(op, term, v))
             ELSE sumOfProducts(list, k + 1, arith("+", sum, term),
                                IF op = "-" THEN arith("-", Zero, v) ELSE v)

\* eval(cleanExpression) for an expression that is not empty and ends with no operator
evaluate(e) ==
    IF \E i \in 1..Len(e) : e[i] \notin Range(DigitChars) \cup {".", "+", "-", "*", "/"}
    THEN Failed
    ELSE sumOfProducts(operands(e), 1, Zero, Zero)

\* calculatorValue.replace(/×/g, '*').replace(/÷/g, '/')
toExpression(value) ==
    [i \in 1..Len(value) |-> IF value[i] = "×" THEN "*" ELSE IF value[i] = "÷" THEN "/" ELSE value[i]]

\* expression.replace(/[+\-*/÷×]+$/, '')
RECURSIVE cleanExpression(_)
cleanExpression(expression) ==
    IF expression # <<>> /\ expression[Len(expression)] \in {"+", "-", "*", "/", "÷", "×"}
    THEN cleanExpression(SubSeq(expression, 1, Len(expression) - 1))
    ELSE expression

RECURSIVE fractionText(_, _, _)
fractionText(rem, d, k) ==
    IF rem = 0 \/ k = 0 THEN <<>>
    ELSE <<DigitChars[((rem * 10) \div d) + 1]>> \o fractionText((rem * 10) % d, d, k - 1)

\* result.toString() of a finite number
numberText(r) ==
    LET digits == fractionText(abs(r.n) % r.d, r.d, FractionDigits)
        kept == {i \in 1..Len(digits) : digits[i] # "0"}
        fraction == IF kept = {} THEN <<>>
                    ELSE SubSeq(digits, 1, CHOOSE i \in kept : \A j \in kept : j <= i)
        whole == wholeText(abs(r.n) \div r.d)
    IN  (IF r.n < 0 /\ (whole # <<"0">> \/ fraction # <<>>) THEN <<"-">> ELSE <<>>)
        \o whole \o (IF fraction = <<>> THEN <<>> ELSE <<".">> \o fraction)

\* the branches of an operator key appending the operator in every case
pressOperatorAppends(value, glyph) ==
    IF value \in {<<"0">>, ErrorText, InfinityText} THEN <<"0", glyph>>
    ELSE Append(value, glyph)

\* the branches of the keys * / + -: glyph is the operator as displayed
pressOperator(value, glyph) ==
    IF value \in {<<"0">>, ErrorText, InfinityText} THEN <<"0", glyph>>
    ELSE IF value # <<>> /\ value[Len(value)] \in {"+", "-", "×", "÷"}
         THEN Append(SubSeq(value, 1, Len(value) - 1), glyph)
    ELSE Append(value, glyph)

\* handleCalculatorInput(value) on the state <<display, memory, active>>
handleCalculatorInput(display, memory, active, value) ==
    LET state == [value |-> display, memory |-> memory, active |-> active]
        clean == cleanExpression(toExpression(display))
        outcome == evaluate(clean)
        operatorAt == {i \in 1..Len(display) : display[i] \in {"+", "-", "*", "/"}}
    IN  CASE value = "C" -> [state EXCEPT !.value = <<"0">>, !.active = FALSE]
          [] value = "=" ->
                IF clean = <<>> THEN state
                ELSE IF outcome = Failed THEN [state EXCEPT !.value = ErrorText]
                ELSE [state EXCEPT !.value = numberText(outcome)]
          [] value = "CE" ->
                IF operatorAt # {}
                THEN [state EXCEPT !.value = SubSeq(display, 1,
                                       (CHOOSE i \in operatorAt : \A j \in operatorAt : j <= i) - 1)]
                ELSE [state EXCEPT !.value = <<"0">>, !.active = FALSE]
          [] value = "backspace" ->
                IF Len(display) > 1 THEN [state EXCEPT !.value = SubSeq(display, 1, Len(display) - 1)]
                ELSE [state EXCEPT !.value = <<"0">>]
          [] value = "M+" ->
                IF clean = <<>> \/ outcome = Failed THEN state
                ELSE [state EXCEPT !.memory = arith("+", memory, outcome)]
          [] value = "MR" -> [state EXCEPT !.value = numberText(memory), !.active = TRUE]
          [] value = "MC" -> [state EXCEPT !.memory = Zero]
          [] value = "*" -> [state EXCEPT !.value = pressOperator(display, "×"), !.active = TRUE]
          [] value = "/" -> [state EXCEPT !.value = pressOperator(display, "÷"), !.active = TRUE]
          [] value = "+" -> [state EXCEPT !.value = pressOperator(display, "+"), !.active = TRUE]
          [] value = "-" -> [state EXCEPT !.value = pressOperator(display, "-"), !.active = TRUE]
          [] OTHER ->
                IF display \in {<<"0">>, ErrorText, InfinityText} /\ value \in DigitKeys
                THEN [state EXCEPT !.value = <<value>>, !.active = TRUE]
                ELSE [state EXCEPT !.value = Append(display, value), !.active = TRUE]

\* a key of the pad is pressed; the display takes MaxDisplay characters and
\* the memory register holds at most MaxMemory, in fractions of MaxMemoryDenominator
HandleCalculatorInput(value) ==
    LET state == handleCalculatorInput(calculatorValue, calculatorMemory, isCalculatorActive, value)
    IN  /\ Len(state.value) > Len(calculatorValue) /\ value # "=" /\ value # "MR"
           => Len(state.value) <= MaxDisplay
        /\ abs(state.memory.n) <= MaxMemory * state.memory.d
        /\ state.memory.d <= MaxMemoryDenominator
        /\ calculatorValue' = state.value
        /\ calculatorMemory' = state.memory
        /\ isCalculatorActive' = state.active
        /\ pressed' = IF value \in {"*", "/", "+", "-"}
                      THEN [value |-> value, on |-> calculatorValue] ELSE NoKey
        /\ UNCHANGED <<priceList, over, credit, linkedClient, calls, failures>>

InitCalc ==
    /\ clients = <<>>
    /\ transactions = <<>>
    /\ payments = <<>>
    /\ dbClients = {}
    /\ dbTransactions = <<>>
    /\ dbPayments = <<>>
    /\ ops = [s \in Slots |-> IdleOp]
    /\ selectedClient = NoClient
    /\ inferBottles = FALSE
    /\ calls = 0
    /\ failures = 0
    /\ result = NoResult
    /\ linkedClient = NoClient
    /\ DeskAtRest
    /\ PriceListAtRest
    /\ OverAtRest

NextCalc == \E value \in Keys : HandleCalculatorInput(value)

SpecCalc == InitCalc /\ [][NextCalc]_vars

(***************************************************************************)
(* PriceListProvider: updateItem(id, name, price).  new Date() is the      *)
(* number of the call; IndexedDB holds the items with their dates as       *)
(* text.  dbManager.updateItem puts the row under its id, or rejects.      *)
(***************************************************************************)
PriceNames == { <<"a", "b">>, <<" ", "c", " ", " ", "a">> }

Prices == {1, 2}

\* str.trim().split(' ').filter(word => word.length > 0).map(capitalize).join(' ')
capitalizeWords(str) ==
    LET words == SelectSeq(split(trim(str)), LAMBDA word : Len(word) > 0)
    IN  join([i \in 1..Len(words) |-> capitalize(words[i])])

\* date.toISOString() and new Date(text); lastEditedAt may be undefined (0)
priceItemToDBItem(item) ==
    [item EXCEPT !.lastEditedAt = IF item.lastEditedAt = 0 THEN <<>> ELSE <<"iso", item.lastEditedAt>>]

dbItemToPriceItem(dbItem) ==
    [dbItem EXCEPT !.lastEditedAt = IF dbItem.lastEditedAt = <<>> THEN 0 ELSE dbItem.lastEditedAt[2]]

\* the synchronous part: the optimistic setItems, then items.find on the items
\* of the render updateItem was called from
UpdateItem(i, name, price) ==
    LET id == priceItems[i].id
        capitalizedName == capitalizeWords(name)
        now == calls + 1
        found == {k \in 1..Len(priceItems) : priceItems[k].id = id}
        originalItem == priceItems[CHOOSE k \in found : \A l \in found : k <= l]
        itemToUpdate == [originalItem EXCEPT !.name = capitalizedName, !.price = price,
                                             !.lastEditedAt = now]
    IN  /\ i \in 1..Len(priceItems)
        /\ Issue
        /\ Cardinality({s \in UserSlots : itemOps[s].pc # "idle"}) < MaxInFlight
        /\ priceItems' = [k \in 1..Len(priceItems) |->
                             IF priceItems[k].id = id
                             THEN [priceItems[k] EXCEPT !.name = capitalizedName, !.price = price,
                                                        !.lastEditedAt = now]
                             ELSE priceItems[k]]
        /\ itemOps' = IF found = {} THEN itemOps
                      ELSE [itemOps EXCEPT ![calls + 1] =
                               [pc |-> "updateItem", originalItem |-> originalItem,
                                itemToUpdate |-> itemToUpdate]]
        /\ UNCHANGED <<dbPriceItems, priceError, desk, over, credit, linkedClient, failures>>

\* await dbManager.updateItem(priceItemToDBItem(itemToUpdate)) resolves, or it
\* rejects: the catch sets the error and throws again
UpdateItemWrite(s) ==
    /\ itemOps[s].pc = "updateItem"
    /\ itemOps' = [itemOps EXCEPT ![s] = IdleItemOp]
    /\ \/ /\ dbPriceItems' = [k \in 1..Len(dbPriceItems) |->
                                 IF dbPriceItems[k].id = itemOps[s].itemToUpdate.id
                                 THEN priceItemToDBItem(itemOps[s].itemToUpdate)
                                 ELSE dbPriceItems[k]]
          /\ UNCHANGED <<priceError, failures>>
       \/ /\ failures < MaxFailures
          /\ failures' = failures + 1
          /\ priceError' = "Failed to update item. Please try again."
          /\ UNCHANGED dbPriceItems
    /\ UNCHANGED <<priceItems, desk, over, credit, linkedClient, calls>>

\* the provider has loaded the two items the database holds
InitPrice ==
    /\ clients = <<>>
    /\ transactions = <<>>
    /\ payments = <<>>
    /\ dbClients = {}
    /\ dbTransactions = <<>>
    /\ dbPayments = <<>>
    /\ ops = [s \in Slots |-> IdleOp]
    /\ selectedClient = NoClient
    /\ inferBottles = FALSE
    /\ calls = 0
    /\ failures = 0
    /\ result = NoResult
    /\ linkedClient = NoClient
    /\ DeskAtRest
    /\ OverAtRest
    /\ dbPriceItems = <<[id |-> 1, name |-> <<"A", "b">>, price |-> 1, lastEditedAt |-> <<>>],
                        [id |-> 2, name |-> <<"C">>, price |-> 2, lastEditedAt |-> <<>>]>>
    /\ priceItems = [k \in 1..2 |-> dbItemToPriceItem(dbPriceItems[k])]
    /\ itemOps = [s \in Slots |-> IdleItemOp]
    /\ priceError = Null

NextPrice ==
    \/ \E i \in 1..Len(priceItems), name \in PriceNames, price \in Prices : UpdateItem(i, name, price)
    \/ \E s \in UserSlots : UpdateItemWrite(s)

SpecPrice == InitPrice /\ [][NextPrice]_vars

(***************************************************************************)
(* The return tab on a client who took two chopines and two bouteilles:    *)
(* further debts and return submissions.                                   *)
(***************************************************************************)
TakenBoth == <<"2", " ", "C", "h", "o", "p", "i", "n", "e", " ", "2", " ",
               "B", "o", "u", "t", "e", "i", "l", "l", "e">>

ReturnDebts ==
    { <<"2", " ", "C", "h", "o", "p", "i", "n", "e", "s">>,
      <<"B", "o", "u", "t", "e", "i", "l", "l", "e">>,
      <<"1", "2", "B", "o", "u", "t", "e", "i", "l", "l", "e", " ", "1", ".", "5", "L">>,
      <<"P", "a", "i", "n">> }

InitReturns ==
    /\ dbClients = {[id |-> MkId("G", <<0, 0, 1>>), name |-> <<"C">>, total_debt |-> 2,
                     bottles_owed |-> stringifyBottles([ZeroBottles EXCEPT !.chopines = 2, !.beer = 2])]}
    /\ dbTransactions = <<[id |-> 1, client_id |-> MkId("G", <<0, 0, 1>>),
                           description |-> TakenBoth, amount |-> 2, type |-> "debt"]>>
    /\ dbPayments = <<>>
    /\ clients = [i \in 1..1 |-> transformClient(orderByName(dbClients)[i])]
    /\ transactions = [i \in 1..1 |-> transformTransaction(dbTransactions[i])]
    /\ payments = <<>>
    /\ ops = [s \in Slots |-> IdleOp]
    /\ selectedClient = NoClient
    /\ inferBottles \in BOOLEAN
    /\ calls = 1
    /\ failures = 0
    /\ result = NoResult
    /\ linkedClient = NoClient
    /\ DeskAtRest
    /\ PriceListAtRest
    /\ OverAtRest

\* the dialogue is used for one thing at a time
NextReturns ==
    \/ \E description \in ReturnDebts :
          InFlight = {} /\ AddTransaction(1, [description |-> description, amount |-> 1])
    \/ \E returnItems \in ReturnSelections : InFlight = {} /\ HandleProcessReturns(1, returnItems)
    \/ \E s \in UserSlots : AddTransactionInsert(s)
    \/ \E s \in UserSlots : AddTransactionUpdate(s)
    \/ \E s \in UserSlots : ReturnBottlesUpdate(s)
    \/ \E s \in Slots : LoadSelectClients(s)
    \/ \E s \in Slots : LoadSelectTransactions(s)
    \/ \E s \in Slots : LoadSelectPayments(s)
    \/ \E s \in Slots : LoadSetState(s)
    \/ \E s \in Slots : LoadFails(s)

SpecReturns == InitReturns /\ [][NextReturns]_vars

(***************************************************************************)
(* The calculator linked to a client (quick add), next to addClient and    *)
(* deleteClient.                                                           *)
(***************************************************************************)
NextLinked ==
    \/ \E name \in RawNames : AddClient(name)
    \/ \E s \in UserSlots : AddClientInsert(s)
    \/ \E s \in UserSlots : AddClientAppend(s)
    \/ \E i \in 1..Len(clients) : DeleteClient(i)
    \/ \E s \in UserSlots : DeleteClientWrite(s)
    \/ \E s \in UserSlots : DeleteClientFilter(s)
    \/ \E i \in 1..Len(clients) : HandleQuickAdd(i)
    \/ HandleCalculatorCancel
    \/ \E input \in DebtInputs : HandleAddToLinkedClient(input)
    \/ \E s \in UserSlots : AddTransactionInsert(s)
    \/ \E s \in UserSlots : AddTransactionUpdate(s)
    \/ \E s \in Slots : LoadSelectClients(s)
    \/ \E s \in Slots : LoadSelectTransactions(s)
    \/ \E s \in Slots : LoadSelectPayments(s)
    \/ \E s \in Slots : LoadSetState(s)
    \/ \E s \in Slots : LoadFails(s)

SpecLinked == Init /\ [][NextLinked]_vars

(***************************************************************************)
(* A store that other tools have written to: the first StoredClients       *)
(* clients of the universe, each with a payload that decodes or one that   *)
(* does not, a transaction and a payment of the first; the provider mounts *)
(* and loads.                                                              *)
(***************************************************************************)
StoredClients == 3

StoredPayloads == {stringifyBottles(ZeroBottles), stringifyBottles([ZeroBottles EXCEPT !.beer = 2]),
                   Truncated}

InitLoad ==
    /\ clients = <<>>
    /\ transactions = <<>>
    /\ payments = <<>>
    /\ \E payload \in [1..StoredClients -> StoredPayloads] :
          dbClients = {[id |-> IdUniverse[k], name |-> universeName(k), total_debt |-> 0,
                        bottles_owed |-> payload[k]] : k \in 1..StoredClients}
    /\ dbTransactions = <<[id |-> 1, client_id |-> IdUniverse[1], description |-> <<"P", "a", "i", "n">>,
                           amount |-> 2, type |-> "debt"]>>
    /\ dbPayments = <<[id |-> 1, client_id |-> IdUniverse[1], amount |-> 2, type |-> "full"]>>
    /\ ops = [s \in Slots |-> IF s = 0 THEN [IdleOp EXCEPT !.kind = "loadData", !.pc = "selectClients"] ELSE IdleOp]
    /\ selectedClient = NoClient
    /\ inferBottles = FALSE
    /\ calls = 0
    /\ failures = 0
    /\ result = NoResult
    /\ linkedClient = NoClient
    /\ DeskAtRest
    /\ PriceListAtRest
    /\ OverAtRest

NextLoad ==
    \/ \E s \in Slots : LoadSelectClients(s)
    \/ \E s \in Slots : LoadSelectTransactions(s)
    \/ \E s \in Slots : LoadSelectPayments(s)
    \/ \E s \in Slots : LoadSetState(s)
    \/ \E s \in Slots : LoadParseFails(s)
    \/ \E s \in Slots : LoadFails(s)

SpecLoad == InitLoad /\ [][NextLoad]_vars

(***************************************************************************)
(* OverProvider: the over items, their store table and the                 *)
(* postgres_changes subscription.  An item id is crypto.randomUUID(): the  *)
(* (calls + 1)-th call draws id calls + 1, the k-th write of another       *)
(* device draws id MaxCalls + k, so no two draws are equal.                *)
(***************************************************************************)
MaxRemoteChanges == 1

ItemNames == { <<"a">>, <<" ", "a", " ", " ", "b">> }

\* name.trim().split(' ').filter(word => word.length > 0).map(capitalize).join(' ')
formatItemName(name) ==
    LET words == SelectSeq(split(trim(name)), LAMBDA word : Len(word) > 0)
    IN  join([i \in 1..Len(words) |-> capitalize(words[i])])

\* the OverItem the load and the handler build from a row
transformItem(row) == [id |-> row.id, name |-> row.name, isCompleted |-> row.is_completed]

\* the handler without the filter of its INSERT branch
applyEventNoFilter(prev, payload) ==
    IF payload.eventType = "INSERT" THEN <<transformItem(payload.row)>> \o prev
    ELSE IF payload.eventType = "UPDATE"
    THEN [i \in 1..Len(prev) |->
             IF prev[i].id = payload.row.id THEN transformItem(payload.row) ELSE prev[i]]
    ELSE IF payload.eventType = "DELETE"
    THEN SelectSeq(prev, LAMBDA item : item.id # payload.row.id)
    ELSE prev

\* the handler with an UPDATE branch that replaces every item
applyEventUpdateAll(prev, payload) ==
    IF payload.eventType = "INSERT"
    THEN <<transformItem(payload.row)>> \o SelectSeq(prev, LAMBDA item : item.id # payload.row.id)
    ELSE IF payload.eventType = "UPDATE"
    THEN [i \in 1..Len(prev) |-> transformItem(payload.row)]
    ELSE IF payload.eventType = "DELETE"
    THEN SelectSeq(prev, LAMBDA item : item.id # payload.row.id)
    ELSE prev

\* what the postgres_changes handler passes to setItems for payload
applyEvent(prev, payload) ==
    IF payload.eventType = "INSERT"
    THEN <<transformItem(payload.row)>> \o SelectSeq(prev, LAMBDA item : item.id # payload.row.id)
    ELSE IF payload.eventType = "UPDATE"
    THEN [i \in 1..Len(prev) |->
             IF prev[i].id = payload.row.id THEN transformItem(payload.row) ELSE prev[i]]
    ELSE IF payload.eventType = "DELETE"
    THEN SelectSeq(prev, LAMBDA item : item.id # payload.row.id)
    ELSE prev

\* the store notifies the subscription of a change of row
notify(eventType, row) ==
    channel' = IF subscribed THEN Append(channel, [eventType |-> eventType, row |-> row])
               ELSE channel

\* insert of row into over_items
storeInsert(row) ==
    /\ dbItems' = Append(dbItems, row)
    /\ notify("INSERT", row)

\* update of over_items set is_completed where id = id; no row, no notification
storeUpdate(id, is_completed) ==
    /\ dbItems' = [i \in 1..Len(dbItems) |->
                      IF dbItems[i].id = id THEN [dbItems[i] EXCEPT !.is_completed = is_completed]
                      ELSE dbItems[i]]
    /\ IF \E i \in 1..Len(dbItems) : dbItems[i].id = id
       THEN notify("UPDATE", (CHOOSE r \in Range(dbItems') : r.id = id))
       ELSE UNCHANGED channel

\* delete from over_items where id = id; payload.old carries the id
storeDelete(id) ==
    /\ dbItems' = SelectSeq(dbItems, LAMBDA r : r.id # id)
    /\ IF \E i \in 1..Len(dbItems) : dbItems[i].id = id
       THEN notify("DELETE", [NoRow EXCEPT !.id = id])
       ELSE UNCHANGED channel

\* the call starts operation op of OverProvider
OverStart(op) ==
    /\ Cardinality({n \in UserSlots : overOps[n].kind # "idle"}) < MaxInFlight
    /\ overOps' = [overOps EXCEPT ![calls + 1] = op]

\* the awaited call of slot s of OverProvider returns an error: the operation throws
OverThrows(s) ==
    /\ failures < MaxFailures
    /\ failures' = failures + 1
    /\ overOps' = [overOps EXCEPT ![s] = IdleOverOp]
    /\ UNCHANGED <<items, dbItems, subscribed, channel, delivered, remoteChanges, calls>>

\* the select of loadItems, newest row first; an error falls back to the
\* empty localStorage and sets up no subscription
LoadItemsSelect ==
    /\ overOps[0].pc = "select"
    /\ \/ /\ overOps' = [overOps EXCEPT ![0].pc = "setItems", ![0].rows = Reverse(dbItems)]
          /\ UNCHANGED <<items, failures>>
       \/ /\ failures < MaxFailures
          /\ failures' = failures + 1
          /\ items' = <<>>
          /\ overOps' = [overOps EXCEPT ![0] = IdleOverOp]
    /\ UNCHANGED <<desk, priceList, credit, linkedClient, dbItems, subscribed, channel, delivered, remoteChanges, calls>>

\* setItems(overItems), then .channel(...).on(...).subscribe()
LoadItemsSet ==
    /\ overOps[0].pc = "setItems"
    /\ items' = [i \in 1..Len(overOps[0].rows) |-> transformItem(overOps[0].rows[i])]
    /\ subscribed' = TRUE
    /\ overOps' = [overOps EXCEPT ![0] = IdleOverOp]
    /\ UNCHANGED <<desk, priceList, credit, linkedClient, dbItems, channel, delivered, remoteChanges, calls, failures>>

\* addItem(name): throws on an uncompleted item of that name, else starts the insert
AddItem(name) ==
    LET formattedName == formatItemName(name)
        newItem == [id |-> calls + 1, name |-> formattedName, isCompleted |-> FALSE]
    IN  /\ Issue
        /\ IF \E i \in 1..Len(items) : items[i].name = formattedName /\ ~items[i].isCompleted
           THEN UNCHANGED overOps
           ELSE OverStart([kind |-> "addItem", pc |-> "insert", item |-> newItem, rows |-> <<>>])
        /\ UNCHANGED <<desk, priceList, credit, linkedClient, items, dbItems, subscribed, channel, delivered,
                       remoteChanges, failures>>

AddItemInsert(s) ==
    /\ overOps[s].kind = "addItem" /\ overOps[s].pc = "insert"
    /\ \/ /\ storeInsert([id |-> overOps[s].item.id, name |-> overOps[s].item.name,
                          is_completed |-> overOps[s].item.isCompleted])
          /\ overOps' = [overOps EXCEPT ![s].pc = "prepend"]
          /\ UNCHANGED <<items, subscribed, delivered, remoteChanges, calls, failures>>
       \/ OverThrows(s)
    /\ UNCHANGED <<desk, priceList, credit, linkedClient>>

\* setItems(prev => [newItem, ...prev])
AddItemPrepend(s) ==
    /\ overOps[s].kind = "addItem" /\ overOps[s].pc = "prepend"
    /\ items' = <<overOps[s].item>> \o items
    /\ overOps' = [overOps EXCEPT ![s] = IdleOverOp]
    /\ UNCHANGED <<desk, priceList, credit, linkedClient, dbItems, subscribed, channel, delivered, remoteChanges,
                   calls, failures>>

\* toggleItem(id) for the id of a listed item
ToggleItem(i) ==
    /\ Issue
    /\ OverStart([kind |-> "toggleItem", pc |-> "update", rows |-> <<>>,
                  item |-> [items[i] EXCEPT !.isCompleted = ~items[i].isCompleted]])
    /\ UNCHANGED <<desk, priceList, credit, linkedClient, items, dbItems, subscribed, channel, delivered,
                   remoteChanges, failures>>

ToggleItemUpdate(s) ==
    /\ overOps[s].kind = "toggleItem" /\ overOps[s].pc = "update"
    /\ \/ /\ storeUpdate(overOps[s].item.id, overOps[s].item.isCompleted)
          /\ overOps' = [overOps EXCEPT ![s].pc = "map"]
          /\ UNCHANGED <<items, subscribed, delivered, remoteChanges, calls, failures>>
       \/ OverThrows(s)
    /\ UNCHANGED <<desk, priceList, credit, linkedClient>>

\* setItems(prev => prev.map(i => i.id === id ? { ...i, isCompleted: newCompletedState } : i))
ToggleItemApply(s) ==
    /\ overOps[s].kind = "toggleItem" /\ overOps[s].pc = "map"
    /\ items' = [i \in 1..Len(items) |->
                    IF items[i].id = overOps[s].item.id
                    THEN [items[i] EXCEPT !.isCompleted = overOps[s].item.isCompleted]
                    ELSE items[i]]
    /\ overOps' = [overOps EXCEPT ![s] = IdleOverOp]
    /\ UNCHANGED <<desk, priceList, credit, linkedClient, dbItems, subscribed, channel, delivered, remoteChanges,
                   calls, failures>>

\* deleteItem(id) for the id of a listed item
DeleteItem(i) ==
    /\ Issue
    /\ OverStart([kind |-> "deleteItem", pc |-> "delete", item |-> items[i], rows |-> <<>>])
    /\ UNCHANGED <<desk, priceList, credit, linkedClient, items, dbItems, subscribed, channel, delivered,
                   remoteChanges, failures>>

DeleteItemDelete(s) ==
    /\ overOps[s].kind = "deleteItem" /\ overOps[s].pc = "delete"
    /\ \/ /\ storeDelete(overOps[s].item.id)
          /\ overOps' = [overOps EXCEPT ![s].pc = "filter"]
          /\ UNCHANGED <<items, subscribed, delivered, remoteChanges, calls, failures>>
       \/ OverThrows(s)
    /\ UNCHANGED <<desk, priceList, credit, linkedClient>>

\* setItems(prev => prev.filter(item => item.id !== id))
DeleteItemFilter(s) ==
    /\ overOps[s].kind = "deleteItem" /\ overOps[s].pc = "filter"
    /\ items' = SelectSeq(items, LAMBDA item : item.id # overOps[s].item.id)
    /\ overOps' = [overOps EXCEPT ![s] = IdleOverOp]
    /\ UNCHANGED <<desk, priceList, credit, linkedClient, dbItems, subscribed, channel, delivered, remoteChanges,
                   calls, failures>>

\* another device, running the same addItem, inserts an item
RemoteInsert(name) ==
    /\ remoteChanges < MaxRemoteChanges
    /\ remoteChanges' = remoteChanges + 1
    /\ storeInsert([id |-> MaxCalls + remoteChanges + 1, name |-> formatItemName(name),
                    is_completed |-> FALSE])
    /\ UNCHANGED <<desk, priceList, credit, linkedClient, items, overOps, subscribed, delivered, calls, failures>>

\* another device toggles the i-th row
RemoteToggle(i) ==
    /\ remoteChanges < MaxRemoteChanges
    /\ remoteChanges' = remoteChanges + 1
    /\ storeUpdate(dbItems[i].id, ~dbItems[i].is_completed)
    /\ UNCHANGED <<desk, priceList, credit, linkedClient, items, overOps, subscribed, delivered, calls, failures>>

\* another device deletes the i-th row
RemoteDelete(i) ==
    /\ remoteChanges < MaxRemoteChanges
    /\ remoteChanges' = remoteChanges + 1
    /\ storeDelete(dbItems[i].id)
    /\ UNCHANGED <<desk, priceList, credit, linkedClient, items, overOps, subscribed, delivered, calls, failures>>

\* the handler runs for the oldest notification not yet handled
Deliver ==
    /\ channel # <<>>
    /\ items' = applyEvent(items, Head(channel))
    /\ delivered' = Head(channel)
    /\ channel' = Tail(channel)
    /\ UNCHANGED <<desk, priceList, credit, linkedClient, dbItems, overOps, subscribed, remoteChanges, calls, failures>>

\* the ledger is not mounted; OverProvider is mounted and loadItems has been called
InitOver ==
    /\ clients = <<>>
    /\ transactions = <<>>
    /\ payments = <<>>
    /\ dbClients = {}
    /\ dbTransactions = <<>>
    /\ dbPayments = <<>>
    /\ ops = [s \in Slots |-> IdleOp]
    /\ selectedClient = NoClient
    /\ inferBottles = FALSE
    /\ calls = 0
    /\ failures = 0
    /\ result = NoResult
    /\ linkedClient = NoClient
    /\ DeskAtRest
    /\ PriceListAtRest
    /\ items = <<>>
    /\ dbItems = <<>>
    /\ overOps = [s \in Slots |->
                     IF s = 0 THEN [IdleOverOp EXCEPT !.kind = "loadItems", !.pc = "select"]
                     ELSE IdleOverOp]
    /\ subscribed = FALSE
    /\ channel = <<>>
    /\ delivered = NoEvent
    /\ remoteChanges = 0

NextOver ==
    \/ LoadItemsSelect
    \/ LoadItemsSet
    \/ \E name \in ItemNames : AddItem(name)
    \/ \E s \in UserSlots : AddItemInsert(s)
    \/ \E s \in UserSlots : AddItemPrepend(s)
    \/ \E i \in 1..Len(items) : ToggleItem(i)
    \/ \E s \in UserSlots : ToggleItemUpdate(s)
    \/ \E s \in UserSlots : ToggleItemApply(s)
    \/ \E i \in 1..Len(items) : DeleteItem(i)
    \/ \E s \in UserSlots : DeleteItemDelete(s)
    \/ \E s \in UserSlots : DeleteItemFilter(s)
    \/ \E name \in ItemNames : RemoteInsert(name)
    \/ \E i \in 1..Len(dbItems) : RemoteToggle(i)
    \/ \E i \in 1..Len(dbItems) : RemoteDelete(i)
    \/ Deliver

SpecOver == InitOver /\ [][NextOver]_vars

(***************************************************************************)
(* Vocabulary of the properties.                                           *)
(***************************************************************************)
amountsOf(entries) == [j \in 1..Len(entries) |-> entries[j].amount]

debtOf(clientId) ==
    LET isDebt(t) == t.clientId = clientId /\ t.type = "debt"
    IN  SumSeq(amountsOf(SelectSeq(transactions, isDebt)))

paidBy(clientId) ==
    LET isPayment(q) == q.clientId = clientId
    IN  SumSeq(amountsOf(SelectSeq(payments, isPayment)))

\* the step is a step of operation n that takes it from pc `from` to pc `to`
Moves(n, kind, from, to) ==
    /\ ops[n].kind = kind /\ ops[n].pc = from
    /\ ops'[n].kind = kind /\ ops'[n].pc = to

\* the pcs at which an operation awaits a write of the store
WritePcs == {"insert", "update", "delete", "insertTransaction", "insertPayment", "updateClient"}

\* the step ends operation n at one of its writes: the write failed
WriteFails(n) == ops[n].pc \in WritePcs /\ ops'[n].kind = "idle"

\* no operation is in flight
Quiescent == \A n \in Slots : ops[n].kind = "idle"

\* the step ends operation n normally
Completes(n) ==
    /\ ops[n].kind # "idle" /\ ops'[n].kind = "idle"
    /\ n = 0 \/ (result'.n = n /\ result'.status = "ok")

storedClients(rows, clientId) == {r \in rows : r.id = clientId}

(***************************************************************************)
(* C1.  Debt conservation: after every step of a sequence of operations,   *)
(* that is whenever no operation is in flight, the cached totalDebt of     *)
(* every client of the ledger equals max(0, sum of the client's debt       *)
(* transactions minus sum of the client's payments).                       *)
(***************************************************************************)
C1_DebtConservation ==
    Quiescent =>
        \A i \in 1..Len(clients) :
            clients[i].totalDebt = Max(0, debtOf(clients[i].id) - paidBy(clients[i].id))

(***************************************************************************)
(* C2.  No update is lost: while no persistence call has failed, the       *)
(* aggregate write of every addTransaction and addPartialPayment builds on *)
(* the total the store holds at that moment, so that the stored total      *)
(* reflects the effect of every operation written before it, whatever the  *)
(* interleaving of the round-trips.                                        *)
(***************************************************************************)
C2_NoLostUpdate ==
    [][\A n \in UserSlots :
          /\ failures = 0
          /\ \/ Moves(n, "addTransaction", "updateClient", "selectClients")
             \/ Moves(n, "addPartialPayment", "updateClient", "selectClients")
          => \A r \in storedClients(dbClients, ops[n].cid) :
                \E q \in storedClients(dbClients', ops[n].cid) :
                    q.total_debt = IF ops[n].kind = "addTransaction"
                                   THEN r.total_debt + ops[n].amount
                                   ELSE Max(0, r.total_debt - ops[n].amount)]_vars

(***************************************************************************)
(* C3.  All-or-nothing locally: the in-memory ledger changes only in the   *)
(* step in which an operation completes normally, so a write operation     *)
(* that ends with RemoteFailure has not mutated it, and the step in which  *)
(* it fails leaves the ledger as it was and hands RemoteFailure to the     *)
(* caller.  The ledger is never ahead of the store: every transaction and  *)
(* payment it holds is a persisted row.                                    *)
(***************************************************************************)
C3_AllOrNothingLocally ==
    /\ [][/\ mem' # mem => \E n \in Slots : Completes(n)
          /\ \A n \in UserSlots :
                WriteFails(n)
                => /\ mem' = mem
                   /\ result' = [n |-> n, kind |-> ops[n].kind,
                                 status |-> "RemoteFailure", amount |-> Num(0)]]_vars
    /\ [](/\ Range(transactions) \subseteq {transformTransaction(r) : r \in Range(dbTransactions)}
          /\ Range(payments) \subseteq {transformPayment(r) : r \in Range(dbPayments)})

\* addTransaction failed at its second write: the row is stored, the ledger does not show it
C3_Witness ==
    /\ result.kind = "addTransaction" /\ result.status = "RemoteFailure"
    /\ dbTransactions # <<>>
    /\ transactions = <<>>
    /\ clients # <<>>

(***************************************************************************)
(* C4.  No partial persisted effect: when the aggregate write of           *)
(* addTransaction, addPartialPayment or settleClient fails after the row   *)
(* insert succeeded, the inserted row is not in the store any more.        *)
(***************************************************************************)
C4_NoPartialPersistedEffect ==
    [][\A n \in UserSlots :
          /\ ops[n].kind \in {"addTransaction", "addPartialPayment", "settleClient"}
          /\ ops[n].pc = "updateClient"
          /\ ops[n].row # 0
          /\ WriteFails(n)
          => IF ops[n].kind = "addTransaction"
             THEN \A j \in 1..Len(dbTransactions') : dbTransactions'[j].id # ops[n].row
             ELSE \A j \in 1..Len(dbPayments') : dbPayments'[j].id # ops[n].row]_vars

(***************************************************************************)
(* C5.  A partial payment whose amount is not a finite number, is not      *)
(* positive, or exceeds the total debt the ledger reports for the client's *)
(* id is rejected with InvalidAmount: no operation is started and neither  *)
(* the ledger nor the store changes.                                       *)
(***************************************************************************)
C5_InvalidAmountRejected ==
    [][\A i \in 1..Len(clients), amount \in PaymentInputs :
          /\ HandlePartialPayment(i, amount)
          /\ \/ amount.tag # "number"
             \/ amount.v <= 0
             \/ amount.v > getClientTotalDebt(clients, clients[i].id)
          => /\ result' = [n |-> calls + 1, kind |-> "addPartialPayment",
                           status |-> "InvalidAmount", amount |-> amount]
             /\ UNCHANGED <<mem, db, ops>>]_vars

\* a payment of more than the positive debt of a client was rejected
C5_Witness ==
    /\ result.kind = "addPartialPayment" /\ result.status = "InvalidAmount"
    /\ result.amount.tag = "number"
    /\ clients # <<>>
    /\ \A i \in 1..Len(clients) :
          clients[i].totalDebt > 0 /\ result.amount.v > clients[i].totalDebt
    /\ dbPayments = <<>>

(***************************************************************************)
(* C6.  Settlement: settleClient of a client with totalDebt d > 0 records  *)
(* exactly one payment, of type 'full' and amount d; its aggregate write   *)
(* leaves the stored total at 0 and every stored bottle count at 0; and    *)
(* when it completes without another operation in flight the ledger shows  *)
(* the client with totalDebt 0, no bottles owed, and that payment.         *)
(***************************************************************************)
C6_Settlement ==
    [][/\ \A i \in 1..Len(clients) :
             SettleClient(i) /\ getClientTotalDebt(clients, clients[i].id) > 0
             => /\ ops'[calls + 1].pc = "insertPayment"
                /\ ops'[calls + 1].amount = getClientTotalDebt(clients, clients[i].id)
       /\ \A n \in UserSlots :
             /\ ops[n].kind = "settleClient" /\ ops'[n] # ops[n]
                => IF Moves(n, "settleClient", "insertPayment", "updateClient")
                   THEN dbPayments' = Append(dbPayments,
                            [id |-> ops'[n].row, client_id |-> ops[n].cid,
                             amount |-> ops[n].amount, type |-> "full"])
                   ELSE dbPayments' = dbPayments
             /\ Moves(n, "settleClient", "updateClient", "selectClients")
                => \A r \in storedClients(dbClients', ops[n].cid) :
                      r.total_debt = 0 /\ parseBottles(r.bottles_owed) = ZeroBottles
             /\ ops[n].kind = "settleClient" /\ ops[n].pc = "setState" /\ ops[n].alone /\ Completes(n)
                => /\ \A j \in 1..Len(clients') :
                         clients'[j].id = ops[n].cid
                         => clients'[j].totalDebt = 0 /\ clients'[j].bottlesOwed = ZeroBottles
                   /\ ops[n].row # 0
                      => [id |-> ops[n].row, clientId |-> ops[n].cid,
                          amount |-> ops[n].amount, type |-> "full"] \in Range(payments')]_vars

\* a client who owed money and bottles was settled: one full payment, nothing owed
C6_Witness ==
    /\ result.kind = "settleClient" /\ result.status = "ok"
    /\ inferBottles
    /\ \E i \in 1..Len(clients), j \in 1..Len(transactions) :
          /\ transactions[j].clientId = clients[i].id
          /\ parseBottlesFromDescription(transactions[j].description) # ZeroBottles
          /\ clients[i].totalDebt = 0 /\ clients[i].bottlesOwed = ZeroBottles
          /\ \E q \in Range(payments) :
                q.clientId = clients[i].id /\ q.type = "full" /\ q.amount = transactions[j].amount

(***************************************************************************)
(* C7.  ID allocation: whatever ids the ledger holds, an addClient with a  *)
(* name that is not in use allocates the id G followed by the smallest     *)
(* positive integer that no id of the form G + three digits uses, written  *)
(* with three digits; ids of another form are ignored.                     *)
(***************************************************************************)
usedNumbers ==
    {id.digits[1] * 100 + id.digits[2] * 10 + id.digits[3] :
        id \in {c \in Range(clientIds(clients)) : c.prefix = "G" /\ Len(c.digits) = 3}}

smallestUnused ==
    CHOOSE n \in 1..(Cardinality(usedNumbers) + 1) :
        n \notin usedNumbers /\ \A m \in 1..(n - 1) : m \in usedNumbers

C7_SmallestUnusedId ==
    [][\A name \in RawNames :
          /\ AddClient(name)
          /\ \A i \in 1..Len(clients) :
                toLowerCase(clients[i].name) # toLowerCase(formattedNameOf(name))
          => /\ ops'[calls + 1].kind = "addClient"
             /\ ops'[calls + 1].cid =
                   MkId("G", <<smallestUnused \div 100, (smallestUnused \div 10) % 10,
                               smallestUnused % 10>>)]_vars

(***************************************************************************)
(* C8.  Client ids are unique: in every reachable state no two clients of  *)
(* the in-memory ledger have the same id.                                  *)
(***************************************************************************)
C8_UniqueClientIds ==
    \A i, j \in 1..Len(clients) : i # j => clients[i].id # clients[j].id

(***************************************************************************)
(* C9.  Delete cascades: when a deleteClient(c) that ran with no other     *)
(* operation in flight completes, no client, no transaction and no payment *)
(* of c remains, neither in the in-memory ledger nor in the store, so that *)
(* c is free for the allocator and a reload brings nothing of c back.      *)
(***************************************************************************)
C9_DeleteCascades ==
    [][\A n \in UserSlots :
          ops[n].kind = "deleteClient" /\ ops[n].alone /\ Completes(n)
          => /\ ~idTaken(clients', ops[n].cid)
             /\ \A t \in Range(transactions') \cup Range(payments') : t.clientId # ops[n].cid
             /\ \A r \in Range(dbTransactions') \cup Range(dbPayments') : r.client_id # ops[n].cid]_vars

(***************************************************************************)
(* C10.  addClient with a name whose formatted form equals the name of a   *)
(* client of the ledger, letter case apart, is rejected with               *)
(* DuplicateClient: no operation is started, nothing is written to the     *)
(* store and the ledger does not change.                                   *)
(***************************************************************************)
C10_DuplicateNameRejected ==
    [][\A name \in RawNames :
          /\ AddClient(name)
          /\ \E i \in 1..Len(clients) :
                toLowerCase(clients[i].name) = toLowerCase(formattedNameOf(name))
          => /\ result' = [n |-> calls + 1, kind |-> "addClient",
                           status |-> "DuplicateClientError", amount |-> Num(0)]
             /\ UNCHANGED <<mem, db, ops>>]_vars

\* a name that differs from a client's only by case and blanks was refused
C10_Witness ==
    /\ result.kind = "addClient" /\ result.status = "DuplicateClientError"
    /\ Len(clients) = 1
    /\ dbClients = {[id |-> clients[1].id, name |-> clients[1].name, total_debt |-> 0,
                     bottles_owed |-> stringifyBottles(ZeroBottles)]}

(***************************************************************************)
(* C11.  Bottle counts are never negative: every entry of every client's   *)
(* bottlesOwed is >= 0, in the ledger and in the store, in every reachable *)
(* state; and returnBottles, however large the returned quantity, writes   *)
(* owed - returned where that is positive and 0 otherwise for each         *)
(* supplied category, which is what the ledger shows when the operation    *)
(* completes with no other operation in flight.                            *)
(***************************************************************************)
C11_BottlesNonNegative ==
    /\ [](/\ \A i \in 1..Len(clients), k \in CategorySet : clients[i].bottlesOwed[k] >= 0
          /\ \A r \in dbClients, k \in CategorySet : parseBottles(r.bottles_owed)[k] >= 0)
    /\ [][/\ \A i \in 1..Len(clients), returned \in ReturnInputs :
                ReturnBottles(i, returned)
                => \A k \in DOMAIN returned :
                      LET owed == getClientBottlesOwed(clients, clients[i].id)[k]
                      IN  ops'[calls + 1].bottles[k] =
                             IF owed > returned[k] THEN owed - returned[k] ELSE 0
          /\ \A n \in UserSlots :
                /\ Moves(n, "returnBottles", "updateClient", "selectClients")
                   => \A r \in storedClients(dbClients', ops[n].cid) :
                         parseBottles(r.bottles_owed) = ops[n].bottles
                /\ ops[n].kind = "returnBottles" /\ ops[n].pc = "setState" /\ ops[n].alone
                   /\ Completes(n)
                   => \A j \in 1..Len(clients') :
                         clients'[j].id = ops[n].cid => clients'[j].bottlesOwed = ops[n].bottles]_vars

\* more bottles were returned than the two the client owed: the count is 0
C11_Witness ==
    /\ result.kind = "returnBottles" /\ result.status = "ok"
    /\ inferBottles
    /\ \E i \in 1..Len(clients), j \in 1..Len(transactions) :
          /\ transactions[j].clientId = clients[i].id
          /\ parseBottlesFromDescription(transactions[j].description).beer = 2
          /\ clients[i].totalDebt = 2
          /\ clients[i].bottlesOwed = ZeroBottles

(***************************************************************************)
(* C12.  bottlesOwed is derivable from the transaction log: each client's  *)
(* bottlesOwed equals, per category, the quantity inferred from the        *)
(* descriptions of the client's transactions that record a take minus the  *)
(* quantity of those that record a return ("Returned: ..."), and 0 where   *)
(* that is negative.  Stated for the ledger an operation leaves when it    *)
(* completes, with the bottle-inferring addTransaction, no other operation *)
(* in flight during it and no persistence call failed so far.  A return is *)
(* left out: the return dialogue logs "Returned: ..." itself before it     *)
(* calls returnBottles (ClientActionModal, processItemReturn).  The ledger *)
(* the operation was called on is one that the log accounts for.           *)
(***************************************************************************)
recordsReturn(description) ==
    startsWithAt(toLowerCase(description), 1, <<"r","e","t","u","r","n","e","d",":">>)

\* what the log txs says client clientId took (returned, when negative) of category k
loggedBottles(txs, clientId, k) ==
    LET log == SelectSeq(txs, LAMBDA t : t.clientId = clientId)
    IN  SumSeq([j \in 1..Len(log) |->
                   IF recordsReturn(log[j].description)
                   THEN 0 - parseBottlesFromDescription(log[j].description)[k]
                   ELSE parseBottlesFromDescription(log[j].description)[k]])

BottlesDerivable(cs, txs) ==
    \A i \in 1..Len(cs), k \in CategorySet :
        cs[i].bottlesOwed[k] = Max(0, loggedBottles(txs, cs[i].id, k))

C12_BottlesDerivable ==
    [][\A n \in UserSlots :
          /\ inferBottles /\ failures' = 0
          /\ ops[0].kind = "idle"
          /\ ops[n].kind # "returnBottles"
          /\ ops[n].pc = "setState" /\ ops[n].alone /\ Completes(n)
          /\ BottlesDerivable(clients, transactions)
          => BottlesDerivable(clients', transactions')]_vars

(***************************************************************************)
(* Vocabulary of the claims about the over items.                          *)
(***************************************************************************)
\* the ids a device can draw
ItemIds == 1..(MaxCalls + MaxRemoteChanges)

\* the rows a notification can carry
EventRows == {[id |-> id, name |-> formatItemName(name), is_completed |-> done] :
                 id \in ItemIds, name \in ItemNames, done \in BOOLEAN}

Payloads(eventType) == {[eventType |-> eventType, row |-> row] : row \in EventRows}

(***************************************************************************)
(* The handler as a function: any list of at most MaxListLen items, two    *)
(* notifications waiting to be handled, and the handler handling them.     *)
(***************************************************************************)
MaxListLen == 2

MergeRows == {row \in EventRows : row.name = formatItemName(<<"a">>)}

MergeLists ==
    UNION {[1..n -> {transformItem(row) : row \in MergeRows}] : n \in 0..MaxListLen}

MergePayloads ==
    {[eventType |-> eventType, row |-> row] : eventType \in {"INSERT", "UPDATE"}, row \in MergeRows}
    \cup {[eventType |-> "DELETE", row |-> [NoRow EXCEPT !.id = id]] : id \in ItemIds}

InitMerge ==
    /\ clients = <<>>
    /\ transactions = <<>>
    /\ payments = <<>>
    /\ dbClients = {}
    /\ dbTransactions = <<>>
    /\ dbPayments = <<>>
    /\ ops = [s \in Slots |-> IdleOp]
    /\ selectedClient = NoClient
    /\ inferBottles = FALSE
    /\ calls = 0
    /\ failures = 0
    /\ result = NoResult
    /\ linkedClient = NoClient
    /\ DeskAtRest
    /\ PriceListAtRest
    /\ items \in MergeLists
    /\ dbItems = <<>>
    /\ overOps = [s \in Slots |-> IdleOverOp]
    /\ subscribed = TRUE
    /\ channel \in [1..2 -> MergePayloads]
    /\ delivered = NoEvent
    /\ remoteChanges = 0

SpecMerge == InitMerge /\ [][Deliver]_vars

(***************************************************************************)
(* C13.  Merge idempotence: handling the same INSERT notification twice in *)
(* a row leaves exactly the list that handling it once leaves (same items, *)
(* same order, its id once), whatever the list was.                        *)
(***************************************************************************)
C13_InsertIdempotent ==
    \A payload \in Payloads("INSERT") :
        LET once == applyEvent(items, payload)
        IN  /\ applyEvent(once, payload) = once
            /\ Cardinality({i \in 1..Len(once) : once[i].id = payload.row.id}) = 1

\* an INSERT was handled for a list of several items, and handling it again changes nothing
C13_Witness ==
    /\ delivered.eventType = "INSERT"
    /\ Len(items) >= 2
    /\ Head(items) = transformItem(delivered.row)
    /\ applyEvent(items, delivered) = items

(***************************************************************************)
(* C14.  Inserts never duplicate an id: however the insert of addItem, its *)
(* local prepend and the delivery of the INSERT notification for the same  *)
(* record interleave, the list never holds two entries with the same id.   *)
(***************************************************************************)
C14_NoDuplicateIds ==
    \A i, j \in 1..Len(items) : items[i].id = items[j].id => i = j

(***************************************************************************)
(* C15.  When the handler handles an UPDATE notification for an id that is *)
(* absent from the list, the list afterwards holds the incoming entity and *)
(* every entity it held; for an id that is present, the entries with that  *)
(* id hold the incoming fields and every other entry is unchanged.         *)
(***************************************************************************)
C15_UpdateUpserts ==
    [][channel # <<>> /\ channel' = Tail(channel) /\ Head(channel).eventType = "UPDATE"
       => LET incoming == transformItem(Head(channel).row)
          IN  IF \E i \in 1..Len(items) : items[i].id = incoming.id
              THEN /\ Len(items') = Len(items)
                   /\ \A i \in 1..Len(items) :
                         items'[i] = IF items[i].id = incoming.id THEN incoming ELSE items[i]
              ELSE /\ incoming \in Range(items')
                   /\ Range(items) \subseteq Range(items')]_vars

(***************************************************************************)
(* C16.  The merge of notifications is commutative: for any list and any   *)
(* two notifications, on the same id or on different ids, handling them in *)
(* either order leaves the same set of entities.                           *)
(***************************************************************************)
C16_Commutative ==
    Len(channel) = 2
    => Range(applyEvent(applyEvent(items, channel[1]), channel[2]))
       = Range(applyEvent(applyEvent(items, channel[2]), channel[1]))

(***************************************************************************)
(* C16, amended.  Two notifications on different ids commute: handling     *)
(* them in either order leaves the same set of entities.  On one id the    *)
(* notification handled last decides.                                      *)
(***************************************************************************)
C16_CommutativeOnDistinctIds ==
    Len(channel) = 2 /\ channel[1].row.id # channel[2].row.id
    => Range(applyEvent(applyEvent(items, channel[1]), channel[2]))
       = Range(applyEvent(applyEvent(items, channel[2]), channel[1]))

\* an INSERT has been handled and an UPDATE of another, listed id is handled next
C16_Witness ==
    /\ Len(channel) = 1
    /\ delivered.eventType = "INSERT"
    /\ Head(items) = transformItem(delivered.row)
    /\ Head(channel).eventType = "UPDATE"
    /\ Head(channel).row.id # delivered.row.id
    /\ \E i \in 1..Len(items) :
          items[i].id = Head(channel).row.id /\ items[i] # transformItem(Head(channel).row)

(***************************************************************************)
(* C17.  ParseError is recovered per client: when a load has selected its  *)
(* rows without a failed call, it ends with every selected client in the   *)
(* ledger, all-zero bottlesOwed for a client whose bottles_owed payload    *)
(* cannot be decoded and the decoded mapping for every other, and with     *)
(* every selected transaction and payment.                                 *)
(***************************************************************************)
C17_ParseErrorRecovered ==
    [][\A s \in Slots :
          ops[s].pc = "setState" /\ Completes(s)
          => /\ clients' = [i \in 1..Len(ops[s].ldClients) |->
                               IF decodable(ops[s].ldClients[i].bottles_owed)
                               THEN transformClient(ops[s].ldClients[i])
                               ELSE [id |-> ops[s].ldClients[i].id,
                                     name |-> ops[s].ldClients[i].name,
                                     totalDebt |-> ops[s].ldClients[i].total_debt,
                                     bottlesOwed |-> ZeroBottles]]
             /\ transactions' = [i \in 1..Len(ops[s].ldTx) |-> transformTransaction(ops[s].ldTx[i])]
             /\ payments' = [i \in 1..Len(ops[s].ldPay) |-> transformPayment(ops[s].ldPay[i])]]_vars

(***************************************************************************)
(* C18.  An operation that references a client id not present in the       *)
(* ledger (addTransaction, addPartialPayment, settleClient, returnBottles) *)
(* fails with NotFound before any persistence write is issued: no such     *)
(* operation is started, and the ledger and the store stay as they are.    *)
(***************************************************************************)
C18_NotFoundBeforeWrite ==
    [][\A n \in UserSlots :
          /\ ops[n].kind = "idle"
          /\ ops'[n].kind \in {"addTransaction", "addPartialPayment", "settleClient", "returnBottles"}
          => ops'[n].cid \in Range(clientIds(clients))]_vars

(***************************************************************************)
(* C19.  Renaming a client changes only its name: the write of             *)
(* updateClient leaves the stored total_debt and bottles_owed of the       *)
(* client as they were immediately before it, and its update of the        *)
(* ledger leaves every totalDebt and bottlesOwed as they were, also when   *)
(* the client changed after the dialog captured it.  Stated for a rename   *)
(* during which no other operation is in flight, no persistence call       *)
(* having failed.                                                          *)
(***************************************************************************)
C19_RenameOnlyName ==
    [][\A n \in UserSlots :
          /\ Moves(n, "updateClient", "update", "apply") /\ ops[n].alone /\ failures' = 0
             => {<<r.total_debt, r.bottles_owed>> : r \in storedClients(dbClients', ops[n].cid)}
                = {<<r.total_debt, r.bottles_owed>> : r \in storedClients(dbClients, ops[n].cid)}
          /\ ops[n].kind = "updateClient" /\ ops[n].pc = "apply" /\ ops[n].alone /\ Completes(n)
             => /\ Len(clients') = Len(clients)
                /\ \A i \in 1..Len(clients) :
                      /\ clients'[i].totalDebt = clients[i].totalDebt
                      /\ clients'[i].bottlesOwed = clients[i].bottlesOwed]_vars

(***************************************************************************)
(* C20.  Every payment record ever created, partial or full, has           *)
(* amount > 0, in the store and in the ledger; settleClient called on a    *)
(* client whose totalDebt is 0 creates no payment.                         *)
(***************************************************************************)
C20_PaymentsPositive ==
    /\ \A i \in 1..Len(dbPayments) : dbPayments[i].amount > 0
    /\ \A i \in 1..Len(payments) : payments[i].amount > 0
    /\ \A n \in UserSlots :
          ops[n].kind = "settleClient" /\ ops[n].debt = 0
          => ops[n].pc # "insertPayment" /\ ops[n].row = 0

\* a settlement of a client without debt has made its write, and the store holds no payment
C20_Witness ==
    \E n \in UserSlots :
        /\ ops[n].kind = "settleClient" /\ ops[n].debt = 0 /\ ops[n].alone
        /\ ops[n].pc = "selectClients"
        /\ dbPayments = <<>>
        /\ dbClients # {}

(***************************************************************************)
(* C21.  When every number of the id format is in use, addClient surfaces  *)
(* a capacity error and creates no client: no insert is started, and no    *)
(* id outside the format G + IdWidth digits is ever produced, for an       *)
(* operation in flight, in the ledger or in the store.                     *)
(***************************************************************************)
C21_CapacityError ==
    /\ \A n \in UserSlots : ops[n].kind = "addClient" => matchesIdPattern(ops[n].cid)
    /\ \A i \in 1..Len(clients) : matchesIdPattern(clients[i].id)
    /\ \A r \in dbClients : matchesIdPattern(r.id)

(***************************************************************************)
(* Vocabulary of the claims about the description parser, on the lower-    *)
(* case text: a quantity is a maximal run of digits; it counts a word when *)
(* the word follows it after optional spaces; a size qualifier is digits   *)
(* and dots followed by "l".                                               *)
(***************************************************************************)
Bouteille == <<"b","o","u","t","e","i","l","l","e">>

\* the positions at which a quantity of bouteille(s) starts
bouteilleQuantities(text) ==
    {i \in 1..Len(text) :
        /\ isDigitChar(text[i]) /\ (i = 1 \/ ~isDigitChar(text[i - 1]))
        /\ LET p == i + runLength(text, i, Range(DigitChars))
           IN  startsWithAt(text, p + runLength(text, p, {" "}), Bouteille)}

\* the position after the word (its plural "s" included) counted by the quantity at i
afterWord(text, i) ==
    LET p == i + runLength(text, i, Range(DigitChars))
        e == p + runLength(text, p, {" "}) + Len(Bouteille)
    IN  IF e <= Len(text) /\ text[e] = "s" THEN e + 1 ELSE e

\* a size qualifier occurs somewhere in the text
hasSizeQualifier(text) ==
    \E i \in 1..Len(text) :
        (isDigitChar(text[i]) \/ text[i] = ".") /\ sizeFollows(text, i)

(***************************************************************************)
(* C22.  Beer rule: in a description with quantities of bouteille(s), beer *)
(* is the sum of those quantities that no size qualifier follows: "2       *)
(* Bouteille" gives beer = 2, bouteilles followed by 1.5l add nothing.     *)
(***************************************************************************)
C22_BeerRule ==
    \A n \in UserSlots :
        LET text == toLowerCase(ops[n].desc)
            counted == {i \in bouteilleQuantities(text) : ~sizeFollows(text, afterWord(text, i))}
        IN  ops[n].kind = "addTransaction" /\ bouteilleQuantities(text) # {}
            => parseBottlesFromDescription(ops[n].desc).beer
               = SumSeq(SortSeq([i \in 1..Cardinality(counted) |->
                                    parseIntAt(text, CHOOSE j \in counted :
                                        Cardinality({l \in counted : l < j}) = i - 1, 0)],
                                LAMBDA a, b : a < b))

(***************************************************************************)
(* C23.  Implicit quantity: a description that contains the bare word      *)
(* "bouteille" or the bare word "bottle", with no quantity of a word and   *)
(* no size qualifier anywhere in the text, gives beer = 1.                 *)
(***************************************************************************)
C23_ImplicitQuantity ==
    \A n \in UserSlots :
        LET text == toLowerCase(ops[n].desc)
        IN  /\ ops[n].kind = "addTransaction"
            /\ includes(text, Bouteille) \/ includes(text, <<"b","o","t","t","l","e">>)
            /\ \A i \in 1..Len(text) : ~isDigitChar(text[i])
            /\ ~hasSizeQualifier(text)
            => parseBottlesFromDescription(ops[n].desc).beer = 1

(***************************************************************************)
(* C29.  In the bottle-inferring variant, recording the audit entry of a   *)
(* return, a transaction of amount 0 described "Returned: n <type>",       *)
(* never increases a bottlesOwed entry: the write addTransaction makes for *)
(* it leaves no stored category of the client above what it was.           *)
(***************************************************************************)
C29_AuditNeverIncreases ==
    [][\A n \in UserSlots :
          /\ inferBottles /\ ops[n].amount = 0 /\ recordsReturn(ops[n].desc)
          /\ Moves(n, "addTransaction", "updateClient", "selectClients")
          => \A before \in storedClients(dbClients, ops[n].cid),
                after \in storedClients(dbClients', ops[n].cid), k \in CategorySet :
                 parseBottles(after.bottles_owed)[k] <= parseBottles(before.bottles_owed)[k]]_vars

(***************************************************************************)
(* C30.  Client names stay unique: no two clients of the ledger have names *)
(* that are equal when case is ignored, also after a rename through        *)
(* updateClient.  Stated for the renames that run with no other operation  *)
(* in flight and no failed persistence call: such a rename, completing on  *)
(* a ledger with unique names, leaves the names unique.                    *)
(***************************************************************************)
namesUnique(cs) ==
    \A i, j \in 1..Len(cs) : i # j => toLowerCase(cs[i].name) # toLowerCase(cs[j].name)

C30_NamesUnique ==
    [][\A n \in UserSlots :
          /\ ops[n].kind = "updateClient" /\ ops[n].alone /\ Completes(n)
          /\ ops[0].kind = "idle" /\ failures' = 0
          /\ namesUnique(clients)
          => namesUnique(clients')]_vars

(***************************************************************************)
(* C24.  Operator replacement: after any sequence of key presses the       *)
(* displayed expression holds no two adjacent operator symbols, and an     *)
(* operator key pressed on an expression that ends with an operator        *)
(* replaces that operator: the expression keeps its length and what stood  *)
(* before the operator, and ends with the operator of the key.             *)
(***************************************************************************)
OperatorSymbols == {"+", "-", "×", "÷", "*", "/"}

glyphOf(value) == IF value = "*" THEN "×" ELSE IF value = "/" THEN "÷" ELSE value

C24_OperatorReplaced ==
    /\ \A i \in 1..(Len(calculatorValue) - 1) :
          ~(calculatorValue[i] \in OperatorSymbols /\ calculatorValue[i + 1] \in OperatorSymbols)
    /\ /\ pressed.value \in {"*", "/", "+", "-"}
       /\ pressed.on # <<>> /\ pressed.on[Len(pressed.on)] \in OperatorSymbols
       => calculatorValue = Append(SubSeq(pressed.on, 1, Len(pressed.on) - 1), glyphOf(pressed.value))

\* an operator key was pressed on an expression that ended with another operator
C24_Witness ==
    /\ pressed.value \in {"*", "/", "+", "-"}
    /\ Len(pressed.on) > 1 /\ pressed.on[Len(pressed.on)] \in OperatorSymbols
    /\ pressed.on[Len(pressed.on)] # glyphOf(pressed.value)
    /\ Len(calculatorValue) = Len(pressed.on)

(***************************************************************************)
(* C27.  updateItem keeps memory and database consistent on failure: when  *)
(* the database update of an updateItem fails, the in-memory item is back  *)
(* at the name, price and lastEditedAt it had before the update.  Stated   *)
(* for an updateItem during which no other updateItem is in flight.        *)
(***************************************************************************)
C27_RolledBack ==
    [][\A s \in UserSlots :
          /\ itemOps[s].pc = "updateItem" /\ itemOps'[s].pc = "idle" /\ failures' > failures
          /\ \A t \in UserSlots \ {s} : itemOps[t].pc = "idle"
          => \A k \in 1..Len(priceItems') :
                priceItems'[k].id = itemOps[s].originalItem.id
                => priceItems'[k] = itemOps[s].originalItem]_vars

(***************************************************************************)
(* Vocabulary of the claims about returns: the quantity a description      *)
(* states of a word is the sum of the numbers that stand before the word,  *)
(* or 1 when the word occurs with no number before it.                     *)
(***************************************************************************)
statedQuantity(text, word) ==
    LET starts == {i \in 1..Len(text) :
                      /\ isDigitChar(text[i]) /\ (i = 1 \/ ~isDigitChar(text[i - 1]))
                      /\ LET p == i + runLength(text, i, Range(DigitChars))
                         IN  startsWithAt(text, p + runLength(text, p, {" "}), word)}
        numbers == SortSeq([i \in 1..Cardinality(starts) |->
                               parseIntAt(text, CHOOSE j \in starts :
                                   Cardinality({l \in starts : l < j}) = i - 1, 0)],
                           LAMBDA a, b : a < b)
    IN  IF starts = {} THEN (IF includes(text, word) THEN 1 ELSE 0) ELSE SumSeq(numbers)

\* what the entries of client clientId took of itemType, and what their
\* "Returned: n <type>" entries say was returned
takenQuantity(txs, clientId, itemType) ==
    LET log == SelectSeq(txs, LAMBDA t : t.clientId = clientId /\ ~recordsReturn(t.description))
    IN  SumSeq([j \in 1..Len(log) |->
                   statedQuantity(toLowerCase(log[j].description), toLowerCase(itemType))])

returnedQuantity(txs, clientId, itemType) ==
    LET log == SelectSeq(txs, LAMBDA t : t.clientId = clientId /\ recordsReturn(t.description)
                                         /\ includes(toLowerCase(t.description), toLowerCase(itemType)))
    IN  SumSeq([j \in 1..Len(log) |->
                   parseIntAt(log[j].description, 11, 0)])

(***************************************************************************)
(* C26.  Net returnable quantity: for each returnable item type the        *)
(* quantity the return tab offers equals max(0, the quantity stated by the *)
(* client's debt descriptions that record no return minus the quantity of  *)
(* its "Returned: n <type>" transactions), in every state of a ledger that *)
(* debts and processed returns act on.                                     *)
(***************************************************************************)
C26_NetReturnable ==
    \A i \in 1..Len(clients), itemType \in ItemTypes :
        availableQuantity(SelectSeq(transactions, LAMBDA t : t.clientId = clients[i].id), itemType)
        = Max(0, takenQuantity(transactions, clients[i].id, itemType)
                 - returnedQuantity(transactions, clients[i].id, itemType))

\* a return has been processed and part of what was taken is still offered
C26_Witness ==
    \E i \in 1..Len(clients), itemType \in ItemTypes :
        /\ returnedQuantity(transactions, clients[i].id, itemType) > 0
        /\ availableQuantity(SelectSeq(transactions, LAMBDA t : t.clientId = clients[i].id), itemType) > 0
        /\ Quiescent

(***************************************************************************)
(* C28.  A return submission of two item types ends with the stored        *)
(* bottlesOwed reduced in both categories: when the submission completes,  *)
(* having run with no other operation in flight and no failed persistence  *)
(* call, each of the two categories holds max(0, what the client owed at   *)
(* the submission minus the quantity returned).                            *)
(***************************************************************************)
C28_BothReduced ==
    [][\A n \in UserSlots :
          /\ Len(ops[n].returnItems) = 2 /\ ops[n].alone /\ Completes(n) /\ failures' = 0
          => \A j \in 1..2, r \in storedClients(dbClients', ops[n].cid) :
                \A k \in DOMAIN bottleUpdate(ops[n].returnItems[j]) :
                    parseBottles(r.bottles_owed)[k]
                    = Max(0, ops[n].client.bottlesOwed[k] - ops[n].returnItems[j].quantity)]_vars

(***************************************************************************)
(* C25.  Reconciliation: whenever every issued ledger operation and every  *)
(* reload has completed and no persistence call has failed, the in-memory  *)
(* clients, transactions and payments are the rows of the persisted store, *)
(* as loadData transforms them; no reload that sets its state late leaves  *)
(* the ledger at rest without a change the store already holds.            *)
(***************************************************************************)
C25_ReconciledAtRest ==
    (Quiescent /\ failures = 0)
    => /\ Range(clients) = {transformClient(r) : r \in dbClients}
       /\ Range(transactions) = {transformTransaction(r) : r \in Range(dbTransactions)}
       /\ Range(payments) = {transformPayment(r) : r \in Range(dbPayments)}

====
